---- MODULE Spec2Model ----
(***************************************************************************)
(* Bucket-aware cache and synchronization engine of HG-Localization:      *)
(* path resolution, bucket metadata sidecars, cache scanning, the private *)
(* index and public manifest, migration of the legacy layout, and the     *)
(* download / upload entry points.                                        *)
(*                                                                         *)
(* Strings whose characters matter (ids, endpoints, prefixes) are         *)
(* sequences of one-character strings, so that the slash replacement, the *)
(* trailing-slash normalisation and the endpoint hash are computed.       *)
(***************************************************************************)
EXTENDS Integers, Sequences, FiniteSets, TLC

VARIABLES
    local,      \* the local cache: directory at each path
    objects,    \* remote asset files at each private key prefix
    index,      \* the private index document of each root
    manifest,   \* the public manifest document of each root
    archives,   \* the public archives
    clock,      \* the time index entries are stamped with
    procs,      \* the uploads in flight
    cached,     \* history: the (asset, context) pairs materialized locally
    uploaded,   \* history: the inputs of the uploads that reported success
    nUploads,   \* the number of uploads begun
    result,     \* what the last completed operation returned
    ui          \* the web UI: configuration page, query cache, backend config

vars == <<local, objects, index, manifest, archives, clock, procs, cached,
          uploaded, nUploads, result, ui>>

\* the state of the engine
engine == <<local, objects, index, manifest, archives, clock, procs, cached,
            uploaded, nUploads, result>>

remote == <<objects, index, manifest, archives>>

(***************************************************************************)
(* Bounds of the model.                                                    *)
(***************************************************************************)
\* number of concurrent uploader tasks of the server process
NumProcs == 2
\* timestamps handed out by the clock: 1..MaxClock
MaxClock == 2
\* distinct directory contents a caller can hand to upload
MaxContent == 2
\* read-modify-write attempts of one index or manifest update
MaxAttempts == 2
\* uploads begun in one run of the model
MaxUploads == 2
\* content files of one asset
NumFiles == 2
\* WebSocket objects one client creates in a run
MaxSockets == 6

Procs == 1..NumProcs
Contents == 1..MaxContent

(***************************************************************************)
(* Strings.                                                                *)
(***************************************************************************)
Alphabet == <<"/", "_", "-", "1", "2", "b", "d", "e", "g", "p", "u">>

CharCode(c) == CHOOSE i \in 1..Len(Alphabet) : Alphabet[i] = c

StripSlash(s) ==
    IF Len(s) > 0 /\ s[Len(s)] = "/" THEN SubSeq(s, 1, Len(s) - 1) ELSE s

\* fixed-width digest of a string, standing for the first 8 hex digits of the
\* endpoint's hash (16 bits here, so that the arithmetic stays in range)
RECURSIVE HashFrom(_, _)
HashFrom(s, h) ==
    IF s = <<>> THEN h
    ELSE HashFrom(Tail(s), (h * 31 + CharCode(Head(s))) % 65536)

Hash8(s) == HashFrom(s, 7)

\* slashes of an id are replaced by underscores for path safety
SafeName(id) == [i \in 1..Len(id) |-> IF id[i] = "/" THEN "_" ELSE id[i]]

\* the download file name's id part: String.replace('/', '_') replaces the
\* first slash only
SafeDatasetId(datasetId) ==
    IF \E i \in 1..Len(datasetId) : datasetId[i] = "/"
    THEN LET k == CHOOSE i \in 1..Len(datasetId) :
                    /\ datasetId[i] = "/"
                    /\ \A j \in 1..(i - 1) : datasetId[j] # "/"
         IN [i \in 1..Len(datasetId) |-> IF i = k THEN "_" ELSE datasetId[i]]
    ELSE datasetId

\* the id the Hub link is built from: every underscore becomes a slash
HubDatasetId(datasetId) ==
    [i \in 1..Len(datasetId) |-> IF datasetId[i] = "_" THEN "/" ELSE datasetId[i]]

(***************************************************************************)
(* Asset identities and bucket contexts.                                   *)
(***************************************************************************)
DefaultConfig == <<"d">>
DefaultRevision == <<"d">>

IdUD == <<"u", "/", "d">>
IdG == <<"g">>

Identity(id, config, revision) ==
    [id |-> id, config |-> config, revision |-> revision]

XUD == Identity(IdUD, DefaultConfig, DefaultRevision)
XG == Identity(IdG, <<"p">>, <<"1">>)

Identities == {XUD, XG}

Context(bucket, endpoint, prefix, creds) ==
    [bucket_name |-> bucket, endpoint_url |-> endpoint,
     data_prefix |-> prefix, has_write_credentials |-> creds]

NoContext == Context(<<>>, <<>>, <<>>, FALSE)

CtxA == Context(<<"b", "1">>, <<"e", "1">>, <<"p", "1", "/">>, TRUE)
\* the same bucket reached without credentials, endpoint written with a slash
CtxAnon == Context(<<"b", "1">>, <<"e", "1", "/">>, <<"p", "1", "/">>, FALSE)
\* another bucket
CtxB == Context(<<"b", "2">>, <<"e", "1">>, <<"p", "1", "/">>, TRUE)
\* the same bucket and endpoint as CtxA, another data prefix
CtxD == Context(<<"b", "1">>, <<"e", "1">>, <<"p", "2", "/">>, TRUE)
\* bucket b1 with nothing else set: default endpoint, no data prefix
CtxPlain == Context(<<"b", "1">>, <<>>, <<>>, TRUE)
\* the same with all credentials cleared
CtxBucketOnly == Context(<<"b", "1">>, <<>>, <<>>, FALSE)

Contexts == {CtxA, CtxAnon, CtxB, CtxD, CtxPlain, CtxBucketOnly}

Configured(ctx) == ctx.bucket_name # <<>>

\* the three fields contexts are compared on, normalised
CtxKey(ctx) ==
    [bucket_name |-> ctx.bucket_name,
     endpoint_url |-> StripSlash(ctx.endpoint_url),
     data_prefix |-> StripSlash(ctx.data_prefix)]

CtxEqual(a, b) == CtxKey(a) = CtxKey(b)

(***************************************************************************)
(* Identity & path resolver.                                               *)
(***************************************************************************)
\* a segment that fingerprints the data prefix instead of the endpoint
BucketSegmentHashingPrefix(ctx) ==
    [name |-> ctx.bucket_name, hash |-> Hash8(StripSlash(ctx.data_prefix))]

\* <bucket_name>_<hash8(endpoint_url)>
BucketSegment(ctx) ==
    [name |-> ctx.bucket_name, hash |-> Hash8(StripSlash(ctx.endpoint_url))]

NoSegment == [name |-> <<>>, hash |-> 0]

Path(root, scoped, segment, X) ==
    [root |-> root, by_bucket |-> scoped, segment |-> segment,
     id |-> SafeName(X.id), config |-> X.config, revision |-> X.revision]

LegacyPath(X) == Path("private", FALSE, NoSegment, X)

PublicPath(X) == Path("public", FALSE, NoSegment, X)

ScopedPath(X, ctx) == Path("private", TRUE, BucketSegment(ctx), X)

\* a resolver that scopes public assets by bucket as well
LocalPathScopingPublic(X, ctx, is_public) ==
    IF Configured(ctx) THEN ScopedPath(X, ctx) ELSE LegacyPath(X)

LocalPath(X, ctx, is_public) ==
    IF is_public THEN PublicPath(X)
    ELSE IF Configured(ctx) THEN ScopedPath(X, ctx)
    ELSE LegacyPath(X)

\* the object store a context talks to, and the key prefix of an asset in it
Store(ctx) ==
    [bucket_name |-> ctx.bucket_name,
     endpoint_url |-> StripSlash(ctx.endpoint_url)]

\* a key prefix that leaves the data prefix out
RemotePrefixAtBucketRoot(X, ctx) ==
    [store |-> Store(ctx), data_prefix |-> <<>>,
     id |-> SafeName(X.id), config |-> X.config, revision |-> X.revision]

RemotePrefix(X, ctx) ==
    [store |-> Store(ctx), data_prefix |-> StripSlash(ctx.data_prefix),
     id |-> SafeName(X.id), config |-> X.config, revision |-> X.revision]

\* where the class-level documents (index, manifest, archives) of a context live
Root(ctx) == [store |-> Store(ctx), data_prefix |-> StripSlash(ctx.data_prefix)]

\* "<id>---<config>---<revision>"
Sep == <<"-", "-", "-">>

CompositeKey(X) == X.id \o Sep \o X.config \o Sep \o X.revision

AllPaths ==
    {LegacyPath(X) : X \in Identities} \cup {PublicPath(X) : X \in Identities}
        \cup {ScopedPath(X, c) : X \in Identities, c \in Contexts}

AllPrefixes == {RemotePrefix(X, c) : X \in Identities, c \in Contexts}

Roots == {Root(c) : c \in Contexts}

(***************************************************************************)
(* Bucket metadata store.                                                  *)
(***************************************************************************)
\* content is the version of the files in the directory, files how many of
\* the asset's content files are in place
NoDir == [content |-> 0, sidecar |-> <<>>, files |-> 0]

Sidecar(ctx, is_public) ==
    <<[s3_bucket_name |-> ctx.bucket_name, s3_endpoint_url |-> ctx.endpoint_url,
       s3_data_prefix |-> ctx.data_prefix, is_public |-> is_public,
       corrupt |-> FALSE]>>

\* a sidecar file whose bytes do not parse
CorruptSidecarFile ==
    <<[s3_bucket_name |-> <<>>, s3_endpoint_url |-> <<>>, s3_data_prefix |-> <<>>,
       is_public |-> FALSE, corrupt |-> TRUE]>>

HasDir(loc, p) == loc[p].content # 0

\* read(asset_dir): the record, <<>> when the file is missing or does not parse
ReadSidecar(file) == IF file # <<>> /\ file[1].corrupt THEN <<>> ELSE file

HasSidecar(loc, p) == HasDir(loc, p) /\ ReadSidecar(loc[p].sidecar) # <<>>

\* a match that compares the bucket name and the endpoint only
MatchesIgnoringPrefix(record, ctx) ==
    /\ record.s3_bucket_name = ctx.bucket_name
    /\ StripSlash(record.s3_endpoint_url) = StripSlash(ctx.endpoint_url)

\* exact match of the normalised bucket name, endpoint and data prefix
Matches(record, ctx) ==
    /\ record.s3_bucket_name = ctx.bucket_name
    /\ StripSlash(record.s3_endpoint_url) = StripSlash(ctx.endpoint_url)
    /\ StripSlash(record.s3_data_prefix) = StripSlash(ctx.data_prefix)

DirMatches(loc, p, ctx) ==
    HasSidecar(loc, p) /\ Matches(ReadSidecar(loc[p].sidecar)[1], ctx)

WriteDir(loc, p, content, ctx, is_public) ==
    [loc EXCEPT ![p] = [content |-> content, sidecar |-> Sidecar(ctx, is_public),
                        files |-> NumFiles]]

(***************************************************************************)
(* Cache scanner.                                                          *)
(***************************************************************************)
\* directories the scan walks: the public store, the legacy tree and the
\* bucket-scoped subtree of the current context
Walked(ctx) ==
    {p \in AllPaths :
        \/ ~p.by_bucket
        \/ Configured(ctx) /\ p.segment = BucketSegment(ctx)}

\* a filter that lets every directory without a sidecar through
IncludedLegacyAlways(loc, p, ctx, filter_by_bucket) ==
    \/ ~filter_by_bucket
    \/ ~HasSidecar(loc, p)
    \/ DirMatches(loc, p, ctx)

Included(loc, p, ctx, filter_by_bucket) ==
    \/ ~filter_by_bucket
    \/ ~HasSidecar(loc, p) /\ ~Configured(ctx)
    \/ DirMatches(loc, p, ctx)

\* the identity a scan reads back from the directory names
Token(p) == [id |-> p.id, config |-> p.config, revision |-> p.revision]

\* a bucket-scoped copy whose bucket matches is preferred over the others
Rank(loc, p, ctx) ==
    IF p.by_bucket /\ DirMatches(loc, p, ctx) THEN 0
    ELSE IF p.root = "private" /\ ~p.by_bucket THEN 1
    ELSE IF p.root = "public" THEN 2
    ELSE 3

ScanLocal(loc, ctx, filter_by_bucket) ==
    LET found == {p \in Walked(ctx) :
                    HasDir(loc, p) /\ Included(loc, p, ctx, filter_by_bucket)}
    IN {p \in found :
          \A q \in found :
             Token(q) = Token(p) => Rank(loc, p, ctx) <= Rank(loc, q, ctx)}

\* assets in the legacy tree that carry no sidecar
LegacyOnly(loc) ==
    {X \in Identities : HasDir(loc, LegacyPath(X)) /\ ~HasSidecar(loc, LegacyPath(X))}

(***************************************************************************)
(* Remote index manager.                                                   *)
(***************************************************************************)
NoDocument == [exists |-> FALSE, entries |-> {}, corrupt |-> FALSE]

\* a document whose bytes do not parse: nothing can be read out of it
CorruptDocument == [exists |-> TRUE, entries |-> {}, corrupt |-> TRUE]

\* a parser that takes a corrupt document for an empty one
ParseBlindly(doc) == doc

\* what a fetch hands to its caller: an unparsable document counts as absent
Parse(doc) == IF doc.corrupt THEN NoDocument ELSE doc

IndexEntry(X, ctx, now) ==
    [key |-> CompositeKey(X), dataset_id |-> X.id, config_name |-> X.config,
     revision |-> X.revision, s3_prefix |-> RemotePrefix(X, ctx),
     s3_bucket |-> ctx.bucket_name, last_updated |-> now]

\* whole-document replace with the entry for its key put in
Upsert(doc, entry) ==
    [exists |-> TRUE,
     entries |-> {e \in doc.entries : e.key # entry.key} \cup {entry},
     corrupt |-> FALSE]

AssetRecord(id, config, revision) ==
    [id |-> id, config |-> config, revision |-> revision]

\* tier 1: the entries of the index whose recorded bucket is the current one
IndexListing(idx, ctx) ==
    {AssetRecord(e.dataset_id, e.config_name, e.revision) :
        e \in {d \in Parse(idx[Root(ctx)]).entries :
                  d.s3_bucket = ctx.bucket_name}}

\* tier 2: enumeration of the private prefix, identities read from the keys
ScanListing(objs, ctx) ==
    {AssetRecord(k.id, k.config, k.revision) :
        k \in {q \in AllPrefixes :
                  /\ q.store = Store(ctx)
                  /\ q.data_prefix = StripSlash(ctx.data_prefix)
                  /\ objs[q] # 0}}

\* a listing that adds the bucket scan to what the index says
ListRemoteScanningToo(idx, objs, ctx) ==
    IndexListing(idx, ctx) \cup ScanListing(objs, ctx)

ListRemote(idx, objs, ctx) ==
    IF Parse(idx[Root(ctx)]).exists THEN IndexListing(idx, ctx)
    ELSE ScanListing(objs, ctx)

\* remove(key): whole-document replace without the entry, tolerant of a
\* missing entry
Remove(doc, key) ==
    [exists |-> TRUE, entries |-> {e \in doc.entries : e.key # key},
     corrupt |-> FALSE]

\* the private tiers a lookup goes through: the index always, the bucket
\* scan when the fetch handed back no document
PrivateTiers(doc) == IF doc.exists THEN <<"index">> ELSE <<"index", "scan">>

\* tiers 1 and 2 asked for one asset
PrivateFound(idx, objs, X, ctx) ==
    IF Parse(idx[Root(ctx)]).exists
    THEN \E e \in Parse(idx[Root(ctx)]).entries :
            e.key = CompositeKey(X) /\ e.s3_bucket = ctx.bucket_name
    ELSE objs[RemotePrefix(X, ctx)] # 0

(***************************************************************************)
(* Public distribution packager.                                           *)
(***************************************************************************)
ArchiveKey(X, ctx) == [root |-> Root(ctx), name |-> CompositeKey(X)]

ManifestEntry(X, ctx) ==
    [key |-> CompositeKey(X), s3_zip_key |-> ArchiveKey(X, ctx)]

PublicFound(man, X, ctx) ==
    \E e \in Parse(man[Root(ctx)]).entries : e.key = CompositeKey(X)

(***************************************************************************)
(* Results handed back to the callers.                                     *)
(***************************************************************************)
NoReport == [migrated |-> {}, skipped |-> {}, failed |-> {}]

Result(op, X, ctx, ok, error, path, report) ==
    [op |-> op, X |-> X, ctx |-> ctx, ok |-> ok, error |-> error,
     path |-> path, report |-> report, listing |-> {}, tiers |-> <<>>]

NoResult == Result("none", XG, NoContext, FALSE, "", <<>>, NoReport)

(***************************************************************************)
(* Sync orchestrator: download.                                            *)
(***************************************************************************)
\* the cached copy download returns without fetching, <<>> when there is none
LocalHit(loc, X, ctx) ==
    IF ~Configured(ctx)
    THEN IF HasDir(loc, LegacyPath(X)) THEN <<LegacyPath(X)>> ELSE <<>>
    ELSE IF DirMatches(loc, ScopedPath(X, ctx), ctx) THEN <<ScopedPath(X, ctx)>>
    ELSE IF DirMatches(loc, PublicPath(X), ctx) THEN <<PublicPath(X)>>
    ELSE <<>>

\* tier 3 serves public-read access only: a caller without write credentials
\* that allows the fallback
PublicTierOpen(ctx, allow_public_fallback) ==
    Configured(ctx) /\ allow_public_fallback /\ ~ctx.has_write_credentials

\* the remote tiers a download goes through, in the order it asks them
DownloadTiers(hit, idx, ctx, allow_public_fallback) ==
    IF hit # <<>> THEN <<>>
    ELSE (IF Configured(ctx) /\ ctx.has_write_credentials
          THEN PrivateTiers(Parse(idx[Root(ctx)])) ELSE <<>>)
         \o (IF PublicTierOpen(ctx, allow_public_fallback)
             THEN <<"public">> ELSE <<>>)

Download(X, ctx, allow_public_fallback) ==
    LET hit == LocalHit(local, X, ctx)
        priv == /\ Configured(ctx) /\ ctx.has_write_credentials
                /\ PrivateFound(index, objects, X, ctx)
        pub == /\ PublicTierOpen(ctx, allow_public_fallback)
               /\ PublicFound(manifest, X, ctx)
        tiers == DownloadTiers(hit, index, ctx, allow_public_fallback)
    IN /\ IF hit # <<>>
          THEN /\ local' = local
               /\ result' = Result("download", X, ctx, TRUE, "", hit, NoReport)
          ELSE IF priv
          THEN /\ local' = WriteDir(local, ScopedPath(X, ctx),
                                    objects[RemotePrefix(X, ctx)], ctx, FALSE)
               /\ result' = [Result("download", X, ctx, TRUE, "",
                                    <<ScopedPath(X, ctx)>>, NoReport)
                                EXCEPT !.tiers = tiers]
          ELSE IF pub
          THEN /\ local' = WriteDir(local, PublicPath(X),
                                    archives[ArchiveKey(X, ctx)], ctx, TRUE)
               /\ result' = [Result("download", X, ctx, TRUE, "",
                                    <<PublicPath(X)>>, NoReport)
                                EXCEPT !.tiers = tiers]
          ELSE /\ local' = local
               /\ result' = [Result("download", X, ctx, FALSE, "NotFound",
                                    <<>>, NoReport)
                                EXCEPT !.tiers = tiers]
       /\ cached' = IF (hit # <<>> \/ priv \/ pub) /\ Configured(ctx)
                    THEN cached \cup {<<X, CtxKey(ctx)>>} ELSE cached
       /\ UNCHANGED <<objects, index, manifest, archives, clock, procs, uploaded,
                      nUploads>>
       /\ UNCHANGED ui

(***************************************************************************)
(* Sync orchestrator: upload.  The file transfer, the read and the write   *)
(* of each whole-document update are separate steps, so that uploads of   *)
(* the server's worker pool interleave.                                    *)
(***************************************************************************)
IdleProc ==
    [pc |-> "idle", X |-> XG, content |-> 0, ctx |-> NoContext,
     make_public |-> FALSE, seen |-> NoDocument, attempts |-> 0,
     is_public |-> FALSE]

UploadInputs(pr) ==
    [X |-> pr.X, content |-> pr.content, ctx |-> CtxKey(pr.ctx),
     make_public |-> pr.make_public]

\* existence check before transfer: files already under the prefix are kept
TransferFiles(objs, X, content, ctx) ==
    IF objs[RemotePrefix(X, ctx)] = 0
    THEN [objs EXCEPT ![RemotePrefix(X, ctx)] = content]
    ELSE objs

\* a packager that uploads no archive
PackageNothing(arch, X, content, ctx) == arch

\* the archive is created only when none exists for this asset version
PackageArchive(arch, X, content, ctx) ==
    IF arch[ArchiveKey(X, ctx)] = 0
    THEN [arch EXCEPT ![ArchiveKey(X, ctx)] = content]
    ELSE arch

\* an unconditional write: last writer wins
CanPutAlways(current, seen) == TRUE

\* conditional write: the document must still be the one that was read
CanPut(current, seen) == current = seen

\* operations on one asset under one context are serialized
KeyFree(p, X, ctx) ==
    \A q \in Procs \ {p} :
        procs[q].pc # "idle" => ~(procs[q].X = X /\ CtxEqual(procs[q].ctx, ctx))

Finish(p, ok, error) ==
    /\ procs' = [procs EXCEPT ![p] = IdleProc]
    /\ result' = Result("upload", procs[p].X, procs[p].ctx, ok, error, <<>>,
                        NoReport)
    /\ uploaded' = IF ok THEN uploaded \cup {UploadInputs(procs[p])}
                   ELSE uploaded

\* a loop that allows itself one attempt more than the limit
RetryOnceMore(p, pc) ==
    IF procs[p].attempts < MaxAttempts
    THEN /\ procs' = [procs EXCEPT ![p].pc = pc,
                                   ![p].attempts = procs[p].attempts + 1]
         /\ UNCHANGED <<result, uploaded>>
    ELSE Finish(p, FALSE, "WriteConflict")

Retry(p, pc) ==
    IF procs[p].attempts + 1 < MaxAttempts
    THEN /\ procs' = [procs EXCEPT ![p].pc = pc,
                                   ![p].attempts = procs[p].attempts + 1]
         /\ UNCHANGED <<result, uploaded>>
    ELSE Finish(p, FALSE, "WriteConflict")

UploadBegin(p, X, content, ctx, make_public) ==
    /\ procs[p].pc = "idle"
    /\ ctx.has_write_credentials
    /\ KeyFree(p, X, ctx)
    /\ objects' = TransferFiles(objects, X, content, ctx)
    /\ procs' = [procs EXCEPT ![p] =
                    [pc |-> "idx_read", X |-> X, content |-> content,
                     ctx |-> ctx, make_public |-> make_public,
                     seen |-> NoDocument, attempts |-> 0, is_public |-> FALSE]]
    /\ nUploads < MaxUploads
    /\ nUploads' = nUploads + 1
    /\ UNCHANGED <<local, index, manifest, archives, clock, cached, uploaded,
                   result>>
    /\ UNCHANGED ui

IndexRead(p) ==
    /\ procs[p].pc = "idx_read"
    /\ procs' = [procs EXCEPT ![p].pc = "idx_write",
                              ![p].seen = index[Root(procs[p].ctx)]]
    /\ UNCHANGED <<local, objects, index, manifest, archives, clock, cached,
                   uploaded, nUploads, result>>
    /\ UNCHANGED ui

IndexWrite(p) ==
    LET pr == procs[p]
        r == Root(pr.ctx)
    IN /\ pr.pc = "idx_write"
       /\ IF CanPut(index[r], pr.seen)
          THEN /\ index' = [index EXCEPT ![r] =
                              Upsert(Parse(pr.seen),
                                     IndexEntry(pr.X, pr.ctx, clock))]
               /\ IF pr.make_public
                  THEN /\ procs' = [procs EXCEPT ![p].pc = "man_read",
                                                 ![p].seen = NoDocument,
                                                 ![p].attempts = 0]
                       /\ UNCHANGED <<result, uploaded>>
                  ELSE Finish(p, TRUE, "")
          ELSE /\ index' = index
               /\ Retry(p, "idx_read")
       /\ UNCHANGED <<local, objects, manifest, archives, clock, cached, nUploads>>
       /\ UNCHANGED ui

ManifestRead(p) ==
    LET pr == procs[p]
    IN /\ pr.pc = "man_read"
       /\ archives' = PackageArchive(archives, pr.X, pr.content, pr.ctx)
       /\ procs' = [procs EXCEPT ![p].pc = "man_write",
                                 ![p].seen = manifest[Root(pr.ctx)]]
       /\ UNCHANGED <<local, objects, index, manifest, clock, cached, uploaded,
                      nUploads, result>>
       /\ UNCHANGED ui

ManifestWrite(p) ==
    LET pr == procs[p]
        r == Root(pr.ctx)
    IN /\ pr.pc = "man_write"
       /\ IF CanPut(manifest[r], pr.seen)
          THEN /\ manifest' = [manifest EXCEPT ![r] =
                                 Upsert(Parse(pr.seen),
                                        ManifestEntry(pr.X, pr.ctx))]
               /\ Finish(p, TRUE, "")
          ELSE /\ manifest' = manifest
               /\ Retry(p, "man_read")
       /\ UNCHANGED <<local, objects, index, archives, clock, cached, nUploads>>
       /\ UNCHANGED ui

(***************************************************************************)
(* Sync orchestrator: a download taken step by step.  The content files    *)
(* arrive one at a time, the caller may abort or the transfer may fail     *)
(* between any two of them, and the sidecar is the last file written.      *)
(***************************************************************************)
DownloadTarget(pr) == LocalPath(pr.X, pr.ctx, pr.is_public)

\* a transfer that writes the sidecar along with the first content file
PutFileWithSidecar(loc, p, pr) ==
    [loc EXCEPT ![p] = [content |-> pr.content,
                        sidecar |-> Sidecar(pr.ctx, pr.is_public),
                        files |-> loc[p].files + 1]]

\* one more content file is in place
PutFile(loc, p, pr) ==
    [loc EXCEPT ![p].content = pr.content, ![p].files = loc[p].files + 1]

\* one writer per directory: no download in progress writes where this one
\* would
DirFree(p, X, ctx) ==
    \A q \in Procs \ {p} :
        procs[q].pc = "dl_files" =>
            DownloadTarget(procs[q]) \notin {ScopedPath(X, ctx), PublicPath(X)}

\* the tiers are consulted as in Download; a directory about to be
\* materialized again loses its old files and its old sidecar first
DownloadBegin(p, X, ctx, allow_public_fallback) ==
    LET hit == LocalHit(local, X, ctx)
        priv == /\ Configured(ctx) /\ ctx.has_write_credentials
                /\ PrivateFound(index, objects, X, ctx)
        pub == /\ PublicTierOpen(ctx, allow_public_fallback)
               /\ PublicFound(manifest, X, ctx)
        started(content, is_public) ==
            [pc |-> "dl_files", X |-> X, content |-> content, ctx |-> ctx,
             make_public |-> FALSE, seen |-> NoDocument, attempts |-> 0,
             is_public |-> is_public]
    IN /\ procs[p].pc = "idle"
       /\ KeyFree(p, X, ctx)
       /\ DirFree(p, X, ctx)
       /\ IF hit # <<>>
          THEN /\ result' = Result("download", X, ctx, TRUE, "", hit, NoReport)
               /\ cached' = IF Configured(ctx)
                            THEN cached \cup {<<X, CtxKey(ctx)>>} ELSE cached
               /\ UNCHANGED <<local, procs>>
          ELSE IF priv
          THEN /\ local' = [local EXCEPT ![ScopedPath(X, ctx)] = NoDir]
               /\ procs' = [procs EXCEPT ![p] =
                               started(objects[RemotePrefix(X, ctx)], FALSE)]
               /\ UNCHANGED <<result, cached>>
          ELSE IF pub
          THEN /\ local' = [local EXCEPT ![PublicPath(X)] = NoDir]
               /\ procs' = [procs EXCEPT ![p] =
                               started(archives[ArchiveKey(X, ctx)], TRUE)]
               /\ UNCHANGED <<result, cached>>
          ELSE /\ result' = Result("download", X, ctx, FALSE, "NotFound",
                                   <<>>, NoReport)
               /\ UNCHANGED <<local, procs, cached>>
       /\ UNCHANGED <<objects, index, manifest, archives, clock, uploaded,
                      nUploads>>
       /\ UNCHANGED ui

DownloadFile(p) ==
    LET pr == procs[p]
    IN /\ pr.pc = "dl_files"
       /\ local[DownloadTarget(pr)].files < NumFiles
       /\ local' = PutFile(local, DownloadTarget(pr), pr)
       /\ UNCHANGED <<objects, index, manifest, archives, clock, procs, cached,
                      uploaded, nUploads, result>>
       /\ UNCHANGED ui

\* every content file is in place: the sidecar is written and the path
\* handed back
DownloadSidecar(p) ==
    LET pr == procs[p]
    IN /\ pr.pc = "dl_files"
       /\ local[DownloadTarget(pr)].files = NumFiles
       /\ local' = WriteDir(local, DownloadTarget(pr), pr.content, pr.ctx,
                            pr.is_public)
       /\ procs' = [procs EXCEPT ![p] = IdleProc]
       /\ result' = Result("download", pr.X, pr.ctx, TRUE, "",
                           <<DownloadTarget(pr)>>, NoReport)
       /\ cached' = cached \cup {<<pr.X, CtxKey(pr.ctx)>>}
       /\ UNCHANGED <<objects, index, manifest, archives, clock, uploaded,
                      nUploads>>
       /\ UNCHANGED ui

\* the caller aborts, or the transfer fails, before the sidecar is written:
\* what is on disk stays as it is
DownloadAbort(p) ==
    LET pr == procs[p]
    IN /\ pr.pc = "dl_files"
       /\ procs' = [procs EXCEPT ![p] = IdleProc]
       /\ result' = Result("download", pr.X, pr.ctx, FALSE, "RemoteUnavailable",
                           <<>>, NoReport)
       /\ UNCHANGED <<local, objects, index, manifest, archives, clock, cached,
                      uploaded, nUploads>>
       /\ UNCHANGED ui

\* an upload is aborted, or fails, between two of its steps
UploadAbort(p) ==
    /\ procs[p].pc \in {"idx_read", "idx_write", "man_read", "man_write"}
    /\ Finish(p, FALSE, "RemoteUnavailable")
    /\ UNCHANGED <<local, objects, index, manifest, archives, clock, cached,
                   nUploads>>
    /\ UNCHANGED ui


Tick ==
    /\ clock < MaxClock
    /\ clock' = clock + 1
    /\ UNCHANGED <<local, objects, index, manifest, archives, procs, cached,
                   uploaded, nUploads, result>>
    /\ UNCHANGED ui

(***************************************************************************)
(* Migration engine.                                                       *)
(***************************************************************************)
\* a migration that copies again although the target is already tagged
MigrateOneRecopies(loc, X, ctx, fault) ==
    IF ~HasDir(loc, LegacyPath(X)) \/ fault
    THEN [loc |-> loc, outcome |-> "failed"]
    ELSE [loc |-> WriteDir(loc, ScopedPath(X, ctx), loc[LegacyPath(X)].content,
                           ctx, FALSE),
          outcome |-> "migrated"]

\* a migration that moves the legacy directory instead of copying it
MigrateOneMoves(loc, X, ctx, fault) ==
    IF ~HasDir(loc, LegacyPath(X)) \/ fault
    THEN [loc |-> loc, outcome |-> "failed"]
    ELSE IF HasSidecar(loc, ScopedPath(X, ctx))
    THEN [loc |-> loc, outcome |-> "skipped"]
    ELSE [loc |-> [WriteDir(loc, ScopedPath(X, ctx), loc[LegacyPath(X)].content,
                            ctx, FALSE) EXCEPT ![LegacyPath(X)] = NoDir],
          outcome |-> "migrated"]

\* one asset: skipped when the target already has a sidecar, failed when the
\* legacy copy is missing or the copy breaks, else copied and tagged
MigrateOneOutcome(loc, X, ctx, fault) ==
    LET target == ScopedPath(X, ctx)
    IN IF ~HasDir(loc, LegacyPath(X))
       THEN [loc |-> loc, outcome |-> "failed"]
       ELSE IF HasSidecar(loc, target)
       THEN [loc |-> loc, outcome |-> "skipped"]
       ELSE IF fault
       THEN [loc |-> loc, outcome |-> "failed"]
       ELSE [loc |-> WriteDir(loc, target, loc[LegacyPath(X)].content, ctx, FALSE),
             outcome |-> "migrated"]

AddToReport(report, X, outcome) ==
    [migrated |-> report.migrated \cup (IF outcome = "migrated" THEN {X} ELSE {}),
     skipped |-> report.skipped \cup (IF outcome = "skipped" THEN {X} ELSE {}),
     failed |-> report.failed \cup (IF outcome = "failed" THEN {X} ELSE {})]

\* a batch that stops at the first failure
RECURSIVE MigrateLoopAborts(_, _, _, _, _)
MigrateLoopAborts(items, ctx, faults, loc, report) ==
    IF items = <<>> THEN [loc |-> loc, report |-> report]
    ELSE LET o == MigrateOneOutcome(loc, Head(items), ctx, Head(items) \in faults)
         IN IF o.outcome = "failed"
            THEN [loc |-> loc, report |-> AddToReport(report, Head(items), "failed")]
            ELSE MigrateLoopAborts(Tail(items), ctx, faults, o.loc,
                                   AddToReport(report, Head(items), o.outcome))

\* the batch: every item is attempted, failures are collected
RECURSIVE MigrateLoop(_, _, _, _, _)
MigrateLoop(items, ctx, faults, loc, report) ==
    IF items = <<>> THEN [loc |-> loc, report |-> report]
    ELSE LET o == MigrateOneOutcome(loc, Head(items), ctx, Head(items) \in faults)
         IN MigrateLoop(Tail(items), ctx, faults, o.loc,
                        AddToReport(report, Head(items), o.outcome))

\* the order in which the scan hands out a set of assets
ScanOrder(S) ==
    CHOOSE s \in [1..Cardinality(S) -> S] : {s[i] : i \in 1..Cardinality(S)} = S

MigrateOne(X, ctx, fault) ==
    LET o == MigrateOneOutcome(local, X, ctx, fault)
    IN /\ Configured(ctx)
       /\ local' = o.loc
       /\ result' = Result("migrate_one", X, ctx, o.outcome # "failed",
                           IF o.outcome = "failed" THEN "MigrationFailed" ELSE "",
                           IF o.outcome = "failed" THEN <<>>
                           ELSE <<ScopedPath(X, ctx)>>,
                           AddToReport(NoReport, X, o.outcome))
       /\ cached' = IF o.outcome = "migrated"
                    THEN cached \cup {<<X, CtxKey(ctx)>>} ELSE cached
       /\ UNCHANGED <<objects, index, manifest, archives, clock, procs, uploaded,
                      nUploads>>
       /\ UNCHANGED ui

MigrateAll(ctx, faults) ==
    LET o == MigrateLoop(ScanOrder(LegacyOnly(local)), ctx, faults, local, NoReport)
    IN /\ Configured(ctx)
       /\ local' = o.loc
       /\ result' = Result("migrate_all", XG, ctx, TRUE, "", <<>>, o.report)
       /\ cached' = cached \cup {<<X, CtxKey(ctx)>> : X \in o.report.migrated}
       /\ UNCHANGED <<objects, index, manifest, archives, clock, procs, uploaded,
                      nUploads>>
       /\ UNCHANGED ui

(***************************************************************************)
(* The web UI: the configuration page, the query cache behind its hooks    *)
(* and the configuration the backend holds.  A field value is a string;    *)
(* a null or missing field of a response is the empty string, which is     *)
(* what `x || ''` makes of it.                                             *)
(***************************************************************************)
\* a property that is not set on the submitted configuration
Undefined == "(undefined)"

\* useState<S3Config> of the page
InitialFormData ==
    [s3_bucket_name |-> "", s3_endpoint_url |-> "", aws_access_key_id |-> "",
     aws_secret_access_key |-> "", s3_data_prefix |-> ""]

FormFields == DOMAIN InitialFormData

Unconfigured ==
    [configured |-> FALSE, has_credentials |-> FALSE, credentials_valid |-> FALSE,
     bucket_name |-> "", endpoint_url |-> "", data_prefix |-> ""]

NoDefaults == [s3_bucket_name |-> "", s3_endpoint_url |-> "", s3_data_prefix |-> ""]

\* a || b on strings
Or(a, b) == IF a # "" THEN a ELSE b

\* the fields the environment can give a default for
DefaultFields == DOMAIN NoDefaults

\* the page is past its loading spinner: isLoading || isLoadingDefaults
Visible(u) == u.mounted /\ ~u.isLoading.status /\ ~u.isLoading.defaults

\* configStatus?.configured
ConfiguredOf(configStatus) ==
    IF configStatus = <<>> THEN <<>> ELSE <<configStatus[1].configured>>

\* useEffect on [configStatus]: the form takes over the values of the status
StatusEffect(u) ==
    IF u.configStatus # <<>>
    THEN [u EXCEPT
            !.formData =
                [s3_bucket_name |-> u.configStatus[1].bucket_name,
                 s3_endpoint_url |-> u.configStatus[1].endpoint_url,
                 aws_access_key_id |-> "",
                 aws_secret_access_key |-> "",
                 s3_data_prefix |-> u.configStatus[1].data_prefix],
            !.showCredentials = u.configStatus[1].has_credentials]
    ELSE u

\* an effect that puts the defaults over whatever the fields hold
DefaultsEffectOverwriting(formData, defaultConfig, configStatus) ==
    IF defaultConfig # <<>> /\ ConfiguredOf(configStatus) # <<TRUE>>
    THEN [formData EXCEPT
            !.s3_bucket_name = Or(defaultConfig[1].s3_bucket_name, @),
            !.s3_endpoint_url = Or(defaultConfig[1].s3_endpoint_url, @),
            !.s3_data_prefix = Or(defaultConfig[1].s3_data_prefix, @)]
    ELSE formData

\* useEffect on [defaultConfig, configStatus?.configured]: empty fields take
\* the environment defaults
DefaultsEffect(formData, defaultConfig, configStatus) ==
    IF defaultConfig # <<>> /\ ConfiguredOf(configStatus) # <<TRUE>>
    THEN [formData EXCEPT
            !.s3_bucket_name = Or(@, defaultConfig[1].s3_bucket_name),
            !.s3_endpoint_url = Or(@, defaultConfig[1].s3_endpoint_url),
            !.s3_data_prefix = Or(@, defaultConfig[1].s3_data_prefix)]
    ELSE formData

\* the effects of one commit, in the order they are declared; written keeps
\* the fields the defaults effect changed, each with the value it replaced
Effects(u, statusChanged, defaultsDepsChanged) ==
    LET a == IF statusChanged THEN StatusEffect(u) ELSE u
        formData == IF defaultsDepsChanged
                    THEN DefaultsEffect(a.formData, a.defaultConfig, a.configStatus)
                    ELSE a.formData
    IN [a EXCEPT !.formData = formData,
                 !.written = {<<f, a.formData[f]>> :
                                 f \in {g \in DefaultFields :
                                           formData[g] # a.formData[g]}}]

\* a submit that sends the credential fields whatever the access mode
ConfigToSubmitWithCredentials(formData, showCredentials) ==
    [s3_bucket_name |-> formData.s3_bucket_name,
     s3_endpoint_url |-> Or(formData.s3_endpoint_url, Undefined),
     s3_data_prefix |-> Or(formData.s3_data_prefix, Undefined),
     aws_access_key_id |-> Or(formData.aws_access_key_id, Undefined),
     aws_secret_access_key |-> Or(formData.aws_secret_access_key, Undefined)]

\* configToSubmit of handleSubmit
ConfigToSubmit(formData, showCredentials) ==
    [s3_bucket_name |-> formData.s3_bucket_name,
     s3_endpoint_url |-> Or(formData.s3_endpoint_url, Undefined),
     s3_data_prefix |-> Or(formData.s3_data_prefix, Undefined),
     aws_access_key_id |->
        IF showCredentials THEN Or(formData.aws_access_key_id, Undefined)
        ELSE Undefined,
     aws_secret_access_key |->
        IF showCredentials THEN Or(formData.aws_secret_access_key, Undefined)
        ELSE Undefined]

\* the status the backend answers a POST /config with
StatusAfter(config, credentials_valid) ==
    LET creds == /\ config.aws_access_key_id # Undefined
                 /\ config.aws_secret_access_key # Undefined
    IN [configured |-> TRUE, has_credentials |-> creds,
        credentials_valid |-> creds /\ credentials_valid,
        bucket_name |-> config.s3_bucket_name,
        endpoint_url |-> IF config.s3_endpoint_url = Undefined THEN ""
                         ELSE config.s3_endpoint_url,
        data_prefix |-> IF config.s3_data_prefix = Undefined THEN ""
                        ELSE config.s3_data_prefix]

(***************************************************************************)
(* The web UI: WebSocketClient.  A socket is CONNECTING, OPEN, CLOSING or  *)
(* CLOSED; the handlers connect() puts on a socket stay on it, so its      *)
(* close event reaches the client whatever this.ws points to by then.      *)
(***************************************************************************)
maxReconnectAttempts == 5

\* the client after construction: ws is null (0), no socket made yet
NewWebSocketClient ==
    [ws |-> 0, reconnectAttempts |-> 0,
     sockets |-> [i \in 1..MaxSockets |-> "none"],
     timers |-> 0, disconnected |-> FALSE]

Made(c) == Cardinality({i \in 1..MaxSockets : c.sockets[i] # "none"})

\* connect(): a new WebSocket, CONNECTING, is put in this.ws
connect(c) ==
    [c EXCEPT !.ws = Made(c) + 1, !.sockets[Made(c) + 1] = "connecting"]

\* a reconnect that does not look at the number of attempts made
attemptReconnectUnbounded(c) ==
    [c EXCEPT !.reconnectAttempts = IF @ < maxReconnectAttempts THEN @ + 1 ELSE @,
              !.timers = @ + 1]

\* attemptReconnect(): one more attempt and a timer for it, or nothing
attemptReconnect(c) ==
    IF c.reconnectAttempts < maxReconnectAttempts
    THEN [c EXCEPT !.reconnectAttempts = @ + 1, !.timers = @ + 1]
    ELSE c

\* disconnect(): close() on the socket in this.ws, then this.ws = null
disconnect(c) ==
    IF c.ws # 0
    THEN [c EXCEPT !.ws = 0,
                   !.sockets[c.ws] = IF @ \in {"connecting", "open"}
                                      THEN "closing" ELSE @]
    ELSE c

\* the page, or whoever holds the client, calls connect()
WsConnect ==
    /\ Made(ui.socket) < MaxSockets
    /\ ui' = [ui EXCEPT !.socket = [connect(ui.socket) EXCEPT !.disconnected = FALSE]]
    /\ UNCHANGED engine

\* the holder calls disconnect()
WsDisconnect ==
    /\ ui' = [ui EXCEPT !.socket = [disconnect(ui.socket) EXCEPT !.disconnected = TRUE]]
    /\ UNCHANGED engine

\* onopen of socket i
WsOpen(i) ==
    /\ ui.socket.sockets[i] = "connecting"
    /\ ui' = [ui EXCEPT !.socket.sockets[i] = "open",
                        !.socket.reconnectAttempts = 0]
    /\ UNCHANGED engine

\* onclose of socket i: the connection failed, the server closed it, or
\* close() was called on it
WsClose(i) ==
    /\ ui.socket.sockets[i] \in {"connecting", "open", "closing"}
    /\ ui' = [ui EXCEPT !.socket =
                  attemptReconnect([ui.socket EXCEPT !.sockets[i] = "closed"])]
    /\ UNCHANGED engine

\* the timer of attemptReconnect fires: connect()
WsTimer ==
    /\ ui.socket.timers > 0
    /\ Made(ui.socket) < MaxSockets
    /\ ui' = [ui EXCEPT !.socket =
                  connect([ui.socket EXCEPT !.timers = @ - 1])]
    /\ UNCHANGED engine

(***************************************************************************)
(* The web UI: the cached list queries.  A query root has no data, data    *)
(* that is served as it is, or data marked invalidated, which is fetched   *)
(* again before it is served.                                              *)
(***************************************************************************)
\* the roots of the query keys: ['datasets', ...], ['dataset', ...] and
\* modelKeys.all
QueryRoots == {"datasets", "dataset", "models"}

NoQueries == [k \in QueryRoots |-> "none"]

\* queryClient.invalidateQueries({ queryKey: [root] })
invalidateQueries(queries, root) ==
    [k \in QueryRoots |->
        IF k = root /\ queries[k] # "none" THEN "invalidated" ELSE queries[k]]

\* useSetConfig, onSuccess
SetConfigOnSuccess(u, data) ==
    [u EXCEPT !.configStatus = <<data>>,
              !.queries = invalidateQueries(@, "datasets")]

\* useClearConfig, onSuccess
ClearConfigOnSuccess(u) ==
    [u EXCEPT !.configStatus = <<Unconfigured>>,
              !.queries = invalidateQueries(invalidateQueries(@, "datasets"),
                                            "models")]

(***************************************************************************)
(* The web UI: the routes of App.tsx.  A location is the sequence of the   *)
(* segments of its path; a route renders a page or a <Navigate>, whose     *)
(* effect replaces the location.                                           *)
(***************************************************************************)
HomePath == <<>>

ConfigPath == <<"config">>

DatasetsPath == <<"datasets">>

Page(name) == [kind |-> "page", name |-> name]

Navigate(to) == [kind |-> "navigate", to |-> to]

\* <Routes> without the check of configStatus on the detail route
RoutesDetailUnguarded(pathname, configStatus) ==
    LET configured == ConfiguredOf(configStatus) = <<TRUE>>
    IN CASE pathname = HomePath ->
               IF configured THEN Navigate(DatasetsPath) ELSE Navigate(ConfigPath)
         [] pathname = ConfigPath -> Page("ConfigurationPage")
         [] pathname = DatasetsPath ->
               IF configured THEN Page("DatasetsPage") ELSE Navigate(ConfigPath)
         [] Len(pathname) = 2 /\ pathname[1] = "datasets" ->
               Page("DatasetDetailPage")
         [] OTHER -> Navigate(HomePath)

\* <Routes>: the element of the route that matches the path
Routes(pathname, configStatus) ==
    LET configured == ConfiguredOf(configStatus) = <<TRUE>>
    IN CASE pathname = HomePath ->
               IF configured THEN Navigate(DatasetsPath) ELSE Navigate(ConfigPath)
         [] pathname = ConfigPath -> Page("ConfigurationPage")
         [] pathname = DatasetsPath ->
               IF configured THEN Page("DatasetsPage") ELSE Navigate(ConfigPath)
         [] Len(pathname) = 2 /\ pathname[1] = "datasets" ->
               IF configured THEN Page("DatasetDetailPage")
               ELSE Navigate(ConfigPath)
         [] OTHER -> Navigate(HomePath)

\* what AppContent renders
AppContent(u) ==
    IF u.isLoading.status THEN Page("Loading")
    ELSE Routes(u.location, u.configStatus)

(***************************************************************************)
(* The web UI: the Cache buttons of the list pages.  A page keeps the set  *)
(* of the keys it shows as being cached; a request in flight belongs to    *)
(* the instance of the page that started it.                               *)
(***************************************************************************)
\* `${dataset.dataset_id}_${dataset.config_name}_${dataset.revision}`
getDatasetKey(dataset) ==
    dataset.dataset_id \o <<"_">> \o dataset.config_name \o <<"_">> \o dataset.revision

\* `${model.model_id}_${model.revision}`
getModelKey(model) == model.model_id \o <<"_">> \o model.revision

\* a request of a page that is still there, or of one that is gone
Request(page, item, alive) == [page |-> page, item |-> item, alive |-> alive]

\* the requests of a page after the page is unmounted
Orphaned(pending, page) ==
    {IF r.page = page THEN Request(page, r.item, FALSE) ELSE r : r \in pending}

(***************************************************************************)
(* The web UI: the response interceptor of apiClient and the listeners of  *)
(* useConfigStatus.  A response is its status, 0 when the request got no   *)
(* response at all.                                                        *)
(***************************************************************************)
NoResponse == 0

\* axios' validateStatus: 2xx is handed to the first handler of the
\* interceptor, everything else to the second
Fulfilled(status) == status >= 200 /\ status < 300

\* the first handler: the response goes on to the caller
onFulfilled(status) ==
    [status |-> status, dispatched |-> 0, outcome |-> "resolved", value |-> status]

\* the second handler with the event dispatched on 403 alone
onRejected403Only(status) ==
    [status |-> status,
     dispatched |-> IF status = 403 THEN 1 ELSE 0,
     outcome |-> "rejected", value |-> status]

\* the second handler: an auth-error event on 403 and 401, and the error
\* rejected to the caller
onRejected(status) ==
    [status |-> status,
     dispatched |-> IF status = 403 \/ status = 401 THEN 1 ELSE 0,
     outcome |-> "rejected", value |-> status]

\* the components that call useConfigStatus
StatusHooks == {"AppContent", "Layout", "DatasetsPage"}

\* the page freshly mounted over a backend, both queries in flight
UiAt(status, defaults) ==
    [mounted |-> TRUE, formData |-> InitialFormData, showCredentials |-> FALSE,
     configStatus |-> <<>>, defaultConfig |-> <<>>,
     isLoading |-> [status |-> TRUE, defaults |-> TRUE],
     written |-> {},
     socket |-> NewWebSocketClient,
     queries |-> NoQueries,
     location |-> ConfigPath,
     downloadingDatasets |-> {},
     cachingModels |-> {},
     pending |-> {},
     listeners |-> {},
     statusInvalidated |-> FALSE,
     lastResponse |-> <<>>,
     responses |-> 0,
     redirected |-> <<>>,
     backend |-> [status |-> status, defaults |-> defaults],
     submitted |-> <<>>]

UiAtRest ==
    [UiAt(Unconfigured, NoDefaults) EXCEPT
        !.mounted = FALSE,
        !.isLoading = [status |-> FALSE, defaults |-> FALSE]]

\* the status query resolves; both effects see a changed dependency
StatusResolved ==
    /\ ui.mounted
    /\ ui.isLoading.status
    /\ ui' = Effects([ui EXCEPT !.configStatus = <<ui.backend.status>>,
                                !.isLoading.status = FALSE], TRUE, TRUE)
    /\ UNCHANGED engine

\* the status query gives up after its retries
StatusFailed ==
    /\ ui.mounted
    /\ ui.isLoading.status
    /\ ui' = [ui EXCEPT !.isLoading.status = FALSE, !.written = {}]
    /\ UNCHANGED engine

\* a failed status query is fetched again (invalidation, reconnect)
StatusRefetch ==
    /\ ui.mounted
    /\ ~ui.isLoading.status
    /\ ui.configStatus = <<>>
    /\ ui' = [ui EXCEPT !.isLoading.status = TRUE, !.written = {}]
    /\ UNCHANGED engine

\* the defaults query resolves
DefaultsResolved ==
    /\ ui.mounted
    /\ ui.isLoading.defaults
    /\ ui' = Effects([ui EXCEPT !.defaultConfig = <<ui.backend.defaults>>,
                                !.isLoading.defaults = FALSE], FALSE, TRUE)
    /\ UNCHANGED engine

\* the defaults query gives up after its retries
DefaultsFailed ==
    /\ ui.mounted
    /\ ui.isLoading.defaults
    /\ ui' = [ui EXCEPT !.isLoading.defaults = FALSE, !.written = {}]
    /\ UNCHANGED engine

\* a failed defaults query is fetched again (reconnect)
DefaultsRefetch ==
    /\ ui.mounted
    /\ ~ui.isLoading.defaults
    /\ ui.defaultConfig = <<>>
    /\ ui' = [ui EXCEPT !.isLoading.defaults = TRUE, !.written = {}]
    /\ UNCHANGED engine

handleInputChange(field, value) ==
    /\ Visible(ui)
    /\ field \notin {"aws_access_key_id", "aws_secret_access_key"}
          \/ ui.showCredentials
    /\ ui' = [ui EXCEPT !.formData[field] = value, !.written = {}]
    /\ UNCHANGED engine

\* the access mode radio buttons
setShowCredentials(value) ==
    /\ Visible(ui)
    /\ ui' = [ui EXCEPT !.showCredentials = value, !.written = {}]
    /\ UNCHANGED engine

\* the form is submitted: the button is enabled and the required inputs are
\* filled in; on success the status cache is set and the page is left
handleSubmit(ok, credentials_valid) ==
    LET configToSubmit == ConfigToSubmit(ui.formData, ui.showCredentials)
        status == StatusAfter(configToSubmit, credentials_valid)
        \* what the request says about credentials, the access mode it was
        \* sent in and whether the form then held any credential text
        sent == <<[aws_access_key_id |-> configToSubmit.aws_access_key_id,
                   aws_secret_access_key |-> configToSubmit.aws_secret_access_key,
                   showCredentials |-> ui.showCredentials,
                   typed |-> \/ ui.formData.aws_access_key_id # ""
                             \/ ui.formData.aws_secret_access_key # ""]>>
    IN /\ Visible(ui)
       /\ ui.formData.s3_bucket_name # ""
       /\ ui.showCredentials =>
             /\ ui.formData.aws_access_key_id # ""
             /\ ui.formData.aws_secret_access_key # ""
       /\ credentials_valid => ok /\ ui.showCredentials
       /\ ui' = IF ok
                THEN [SetConfigOnSuccess(ui, status) EXCEPT
                                !.location = DatasetsPath,
                                !.redirected = <<>>,
                                !.submitted = sent,
                                !.written = {},
                                !.backend.status = status,
                                !.mounted = FALSE]
                ELSE [ui EXCEPT !.submitted = sent, !.written = {}]
       /\ UNCHANGED engine

\* the configuration page mounts: fresh component state over the cache, and
\* a query without data is fetched again
MountPage(u) ==
    Effects([u EXCEPT !.mounted = TRUE,
                      !.location = ConfigPath,
                      !.formData = InitialFormData,
                      !.showCredentials = FALSE,
                      !.isLoading =
                          [status |-> u.configStatus = <<>>,
                           defaults |-> u.defaultConfig = <<>>]],
            TRUE, TRUE)

\* the user comes back to the page
Mount ==
    /\ AppContent(ui).kind = "page"
    /\ ~ui.mounted
    /\ ui' = MountPage([ui EXCEPT !.redirected = <<>>])
    /\ UNCHANGED engine

\* "Clear Invalid Configuration"
clearConfig ==
    /\ Visible(ui)
    /\ ConfiguredOf(ui.configStatus) = <<TRUE>>
    /\ ui.configStatus[1].has_credentials
    /\ ~ui.configStatus[1].credentials_valid
    /\ ui' = Effects([ClearConfigOnSuccess(ui) EXCEPT
                                !.backend.status = Unconfigured], TRUE, TRUE)
    /\ UNCHANGED engine

\* the status query of AppContent settles while the configuration page is
\* not there: with the answer of the backend, or with an error and no data
AppStatusSettled(ok) ==
    /\ ~ui.mounted
    /\ ui.isLoading.status
    /\ ui' = [ui EXCEPT !.isLoading.status = FALSE,
                        !.configStatus = IF ok THEN <<ui.backend.status>> ELSE @]
    /\ UNCHANGED engine

\* the backend is given another configuration from elsewhere, and the
\* status is fetched again behind a page that stays
AppStatusRefetched(status) ==
    /\ AppContent(ui).kind = "page"
    /\ ~ui.mounted
    /\ ~ui.isLoading.status
    /\ ui' = [ui EXCEPT !.backend.status = status, !.configStatus = <<status>>]
    /\ UNCHANGED engine

\* the effect of a rendered <Navigate to replace />
NavigateEffect ==
    LET element == AppContent(ui)
        there == [ui EXCEPT !.location = element.to,
                            !.redirected = <<ui.location>>]
    IN /\ element.kind = "navigate"
       /\ ui' = IF element.to = ConfigPath THEN MountPage(there) ELSE there
       /\ UNCHANGED engine

\* the user enters a path in the address bar while a page is shown
Go(pathname) ==
    /\ AppContent(ui).kind = "page"
    /\ ~ui.isLoading.status
    /\ pathname # ConfigPath
    /\ ui' = [ui EXCEPT !.location = pathname, !.redirected = <<>>,
                        !.mounted = FALSE, !.written = {}]
    /\ UNCHANGED engine

\* the Datasets link of the navigation bar; disabled, the click is prevented
LinkClick ==
    /\ AppContent(ui).kind = "page"
    /\ ~ui.isLoading.status
    /\ ConfiguredOf(ui.configStatus) = <<TRUE>>
    /\ ui' = [ui EXCEPT !.location = DatasetsPath, !.redirected = <<>>,
                        !.mounted = FALSE, !.written = {}]
    /\ UNCHANGED engine

\* what the Next.js HomePage renders: the spinner or nothing
HomePage(u) == IF u.isLoading.status THEN Page("Loading") ELSE Page("null")

\* the effect of the Next.js HomePage on [configStatus, isLoading, router]
HomePageEffect ==
    LET there(to) == [ui EXCEPT !.location = to, !.redirected = <<ui.location>>]
    IN /\ ui.location = HomePath
       /\ ~ui.isLoading.status /\ ui.configStatus # <<>>
       /\ ui' = IF ui.configStatus[1].configured
                THEN there(DatasetsPath)
                ELSE MountPage(there(ConfigPath))
       /\ UNCHANGED engine

\* the user opens the home page of the Next.js application again; a status
\* query without data is fetched again
GoHome ==
    /\ ui.location # HomePath
    /\ ~ui.isLoading.status
    /\ ui' = [ui EXCEPT !.location = HomePath, !.redirected = <<>>,
                        !.mounted = FALSE, !.written = {},
                        !.isLoading.status = ui.configStatus = <<>>]
    /\ UNCHANGED engine

\* the user opens /config of the Next.js application
OpenConfig ==
    /\ ~ui.mounted
    /\ ~ui.isLoading.status
    /\ ui' = MountPage([ui EXCEPT !.redirected = <<>>])
    /\ UNCHANGED engine

\* DatasetsPage.handleCache up to its await; the button of a dataset shown
\* as being cached is disabled
DatasetsPage_handleCache(dataset) ==
    LET datasetKey == getDatasetKey(dataset)
    IN /\ datasetKey \notin ui.downloadingDatasets
       /\ ui' = [ui EXCEPT
                    !.downloadingDatasets = @ \cup {datasetKey},
                    !.pending = @ \cup {Request("datasets", dataset, TRUE)}]
       /\ UNCHANGED engine

\* the request settles: useCacheDataset's onSuccess, then the finally block
\* of handleCache, which reaches the state of the page that started it
DatasetsPage_cacheSettled(request, ok) ==
    /\ request \in ui.pending
    /\ request.page = "datasets"
    /\ ui' = [ui EXCEPT
                 !.queries = IF ok THEN invalidateQueries(@, "datasets") ELSE @,
                 !.downloadingDatasets =
                     IF request.alive THEN @ \ {getDatasetKey(request.item)}
                     ELSE @,
                 !.pending = @ \ {request}]
    /\ UNCHANGED engine

\* the user leaves the datasets page and comes back: useState(new Set())
DatasetsPage_remount ==
    /\ ui' = [ui EXCEPT !.downloadingDatasets = {},
                        !.pending = Orphaned(@, "datasets")]
    /\ UNCHANGED engine

\* ModelsPage.handleCache up to its await
ModelsPage_handleCache(model) ==
    LET modelKey == getModelKey(model)
    IN /\ modelKey \notin ui.cachingModels
       /\ ui' = [ui EXCEPT
                    !.cachingModels = @ \cup {modelKey},
                    !.pending = @ \cup {Request("models", model, TRUE)}]
       /\ UNCHANGED engine

\* the request settles: useCacheModel's onSuccess (the three list queries
\* under modelKeys.all), then the finally block of handleCache
ModelsPage_cacheSettled(request, ok) ==
    /\ request \in ui.pending
    /\ request.page = "models"
    /\ ui' = [ui EXCEPT
                 !.queries = IF ok THEN invalidateQueries(@, "models") ELSE @,
                 !.cachingModels =
                     IF request.alive THEN @ \ {getModelKey(request.item)}
                     ELSE @,
                 !.pending = @ \ {request}]
    /\ UNCHANGED engine

\* the user leaves the models page and comes back
ModelsPage_remount ==
    /\ ui' = [ui EXCEPT !.cachingModels = {},
                        !.pending = Orphaned(@, "models")]
    /\ UNCHANGED engine

\* a component that calls useConfigStatus mounts: its effect adds a listener
HookMount(component) ==
    /\ component \notin ui.listeners
    /\ ui' = [ui EXCEPT !.listeners = @ \cup {component}]
    /\ UNCHANGED engine

\* the cleanup of the effect removes the listener
HookUnmount(component) ==
    /\ component \in ui.listeners
    /\ ui' = [ui EXCEPT !.listeners = @ \ {component}]
    /\ UNCHANGED engine

\* a request of apiClient ends: the interceptor runs, a dispatched event
\* reaches every listener, and each listener invalidates the status query
ApiResponse(status) ==
    LET handled == IF Fulfilled(status) THEN onFulfilled(status)
                   ELSE onRejected(status)
    IN /\ ui' = [ui EXCEPT
                    !.lastResponse = <<handled>>,
                    !.responses = (@ + 1) % 2,
                    !.statusInvalidated =
                        IF handled.dispatched > 0 /\ ui.listeners # {}
                        THEN TRUE ELSE @]
       /\ UNCHANGED engine

\* the invalidated status query, observed by a mounted hook, is fetched
\* again and answered
StatusInvalidatedRefetch ==
    /\ ui.statusInvalidated
    /\ ui.listeners # {}
    /\ ui' = [ui EXCEPT !.statusInvalidated = FALSE,
                        !.configStatus = <<ui.backend.status>>]
    /\ UNCHANGED engine

\* a list or detail page is shown and its query has nothing to serve: the
\* query is fetched from the backend
FetchQuery(root) ==
    /\ ui.queries[root] # "fresh"
    /\ ui' = [ui EXCEPT !.queries[root] = "fresh"]
    /\ UNCHANGED engine

(***************************************************************************)
(* The system.                                                             *)
(***************************************************************************)
Fresh ==
    /\ objects = [k \in AllPrefixes |-> 0]
    /\ index = [r \in Roots |-> NoDocument]
    /\ manifest = [r \in Roots |-> NoDocument]
    /\ archives = [k \in {ArchiveKey(X, c) : X \in Identities, c \in Contexts} |-> 0]
    /\ clock = 1
    /\ procs = [p \in Procs |-> IdleProc]
    /\ cached = {}
    /\ uploaded = {}
    /\ nUploads = 0
    /\ result = NoResult
    /\ ui = UiAtRest

\* a cache left by the bucket-unaware version: legacy directories, no sidecar
LegacyDirs == {NoDir, [content |-> 1, sidecar |-> <<>>, files |-> NumFiles]}

LegacyCaches(assets) ==
    {l \in [AllPaths -> LegacyDirs] :
        \A p \in AllPaths : HasDir(l, p) => \E X \in assets : p = LegacyPath(X)}

\* nothing uploaded yet; the cache is empty or holds a legacy copy of one asset
Init ==
    /\ local \in LegacyCaches({XUD})
    /\ Fresh

InitLegacy ==
    /\ local \in LegacyCaches(Identities)
    /\ Fresh

\* no upload is in flight
Quiet == \A p \in Procs : procs[p].pc = "idle"

\* the calls the environment makes
DownloadCalls ==
    {<<XUD, CtxA, FALSE>>, <<XUD, CtxAnon, TRUE>>, <<XUD, CtxB, TRUE>>,
     <<XUD, CtxD, TRUE>>, <<XUD, NoContext, FALSE>>}

UploadCalls ==
    {<<XUD, c, CtxA, mp>> : c \in Contents, mp \in BOOLEAN}
        \cup {<<XUD, 1, CtxD, FALSE>>, <<XG, 1, CtxA, FALSE>>}

MigrateContexts == {CtxA, CtxD, CtxB}

\* the command-line process: one operation at a time
Next ==
    \/ \E d \in DownloadCalls : Quiet /\ Download(d[1], d[2], d[3])
    \/ \E u \in UploadCalls : UploadBegin(1, u[1], u[2], u[3], u[4])
    \/ IndexRead(1)
    \/ IndexWrite(1)
    \/ ManifestRead(1)
    \/ ManifestWrite(1)
    \/ Quiet /\ Tick
    \/ \E ctx \in {CtxA, CtxD} : Quiet /\ MigrateOne(XUD, ctx, FALSE)

Spec == Init /\ [][Next]_vars

\* migration of a legacy cache, with the local reads that follow it
NextMigration ==
    \/ \E X \in Identities, ctx \in MigrateContexts, f \in BOOLEAN :
          MigrateOne(X, ctx, f)
    \/ \E ctx \in MigrateContexts, F \in SUBSET Identities : MigrateAll(ctx, F)
    \/ \E X \in Identities, ctx \in MigrateContexts \cup {NoContext} :
          Download(X, ctx, FALSE)

SpecMigration == InitLegacy /\ [][NextMigration]_vars

\* list_local_datasets over a cache that holds legacy and migrated copies
ListLocal(ctx, filter_by_bucket) ==
    /\ result' = [Result("list_local", XG, ctx, TRUE, "", <<>>, NoReport)
                     EXCEPT !.listing =
                        {AssetRecord(p.id, p.config, p.revision) :
                            p \in ScanLocal(local, ctx, filter_by_bucket)},
                            !.tiers = IF filter_by_bucket THEN <<"filtered">>
                                      ELSE <<>>]
    /\ UNCHANGED <<local, objects, index, manifest, archives, clock, procs,
                   cached, uploaded, nUploads>>
    /\ UNCHANGED ui

NextScan ==
    \/ NextMigration
    \/ \E ctx \in MigrateContexts \cup {NoContext}, f \in BOOLEAN : ListLocal(ctx, f)

SpecScan == InitLegacy /\ [][NextScan]_vars

\* the configuration page over a backend that is configured or not, with or
\* without environment defaults
InitialStatuses ==
    {Unconfigured,
     [Unconfigured EXCEPT !.configured = TRUE, !.bucket_name = "c"],
     [Unconfigured EXCEPT !.configured = TRUE, !.bucket_name = "c",
                          !.has_credentials = TRUE]}

EnvDefaults ==
    {NoDefaults, [NoDefaults EXCEPT !.s3_bucket_name = "d", !.s3_endpoint_url = "d"]}

TypedValues == {"", "t"}

InitConfigPage ==
    /\ local \in LegacyCaches({})
    /\ objects = [k \in AllPrefixes |-> 0]
    /\ index = [r \in Roots |-> NoDocument]
    /\ manifest = [r \in Roots |-> NoDocument]
    /\ archives = [k \in {ArchiveKey(X, c) : X \in Identities, c \in Contexts} |-> 0]
    /\ clock = 1
    /\ procs = [p \in Procs |-> IdleProc]
    /\ cached = {}
    /\ uploaded = {}
    /\ nUploads = 0
    /\ result = NoResult
    /\ ui \in {UiAt(st, d) : st \in InitialStatuses, d \in EnvDefaults}

NextConfigPage ==
    \/ StatusResolved
    \/ StatusFailed
    \/ StatusRefetch
    \/ DefaultsResolved
    \/ DefaultsFailed
    \/ DefaultsRefetch
    \/ \E field \in FormFields, value \in TypedValues :
          handleInputChange(field, value)
    \/ \E value \in BOOLEAN : setShowCredentials(value)
    \/ \E ok \in BOOLEAN, valid \in BOOLEAN : handleSubmit(ok, valid)
    \/ Mount
    \/ clearConfig

SpecConfigPage == InitConfigPage /\ [][NextConfigPage]_vars

\* downloads and uploads taken step by step, with aborts
TransferUploadCalls ==
    {<<XUD, 1, CtxA, TRUE>>, <<XUD, 2, CtxPlain, TRUE>>, <<XG, 1, CtxA, FALSE>>}

TransferDownloadCalls ==
    {<<XUD, CtxA, FALSE>>, <<XUD, CtxAnon, TRUE>>, <<XUD, CtxBucketOnly, TRUE>>,
     <<XG, CtxA, FALSE>>}

\* the callers that download: two at a time at most
TransferWorkers == Procs \cap (1..2)

NoUpload == \A q \in Procs : procs[q].pc \in {"idle", "dl_files"}

NextTransfer ==
    \/ \E u \in TransferUploadCalls : Quiet /\ UploadBegin(1, u[1], u[2], u[3], u[4])
    \/ \E p \in Procs : IndexRead(p) \/ IndexWrite(p)
    \/ \E p \in Procs : ManifestRead(p) \/ ManifestWrite(p)
    \/ \E p \in Procs : UploadAbort(p)
    \/ \E p \in TransferWorkers, d \in TransferDownloadCalls :
          NoUpload /\ DownloadBegin(p, d[1], d[2], d[3])
    \/ \E p \in Procs : DownloadFile(p)
    \/ \E p \in Procs : DownloadSidecar(p)
    \/ \E p \in Procs : DownloadAbort(p)

SpecTransfer == Init /\ [][NextTransfer]_vars

\* the configuration mutations next to the pages that fetch the lists
NextQueryCache ==
    \/ StatusResolved
    \/ DefaultsResolved
    \/ \E value \in TypedValues : handleInputChange("s3_bucket_name", value)
    \/ \E ok \in BOOLEAN : handleSubmit(ok, FALSE)
    \/ Mount
    \/ clearConfig
    \/ \E root \in QueryRoots : FetchQuery(root)

SpecQueryCache == InitConfigPage /\ [][NextQueryCache]_vars

\* the application opened at some path, the status query in flight
Paths ==
    {HomePath, ConfigPath, DatasetsPath, <<"datasets", "x">>,
     <<"datasets", "x", "y">>, <<"models">>}

InitRouter ==
    /\ local \in LegacyCaches({})
    /\ objects = [k \in AllPrefixes |-> 0]
    /\ index = [r \in Roots |-> NoDocument]
    /\ manifest = [r \in Roots |-> NoDocument]
    /\ archives = [k \in {ArchiveKey(X, c) : X \in Identities, c \in Contexts} |-> 0]
    /\ clock = 1
    /\ procs = [p \in Procs |-> IdleProc]
    /\ cached = {}
    /\ uploaded = {}
    /\ nUploads = 0
    /\ result = NoResult
    /\ ui \in {[UiAtRest EXCEPT !.location = pathname,
                                 !.isLoading.status = TRUE,
                                 !.backend.status = status] :
                   pathname \in Paths, status \in InitialStatuses}

NextRouter ==
    \/ \E ok \in BOOLEAN : AppStatusSettled(ok)
    \/ \E status \in InitialStatuses : AppStatusRefetched(status)
    \/ NavigateEffect
    \/ \E pathname \in Paths : Go(pathname)
    \/ LinkClick
    \/ StatusResolved
    \/ DefaultsResolved
    \/ \E value \in TypedValues : handleInputChange("s3_bucket_name", value)
    \/ \E ok \in BOOLEAN : handleSubmit(ok, FALSE)
    \/ Mount
    \/ clearConfig

SpecRouter == InitRouter /\ [][NextRouter]_vars

\* the Next.js application opened at its home page, the status query in
\* flight; an effect that can run does run
InitHomePage ==
    /\ InitRouter
    /\ ui.location = HomePath

NextHomePage ==
    \/ \E ok \in BOOLEAN : AppStatusSettled(ok)
    \/ HomePageEffect
    \/ GoHome
    \/ OpenConfig
    \/ StatusResolved
    \/ StatusFailed
    \/ DefaultsResolved
    \/ \E field \in {"s3_bucket_name", "s3_data_prefix"}, value \in TypedValues :
          handleInputChange(field, value)
    \/ \E ok \in BOOLEAN : handleSubmit(ok, FALSE)
    \/ clearConfig

SpecHomePage ==
    InitHomePage /\ [][NextHomePage]_vars /\ WF_vars(HomePageEffect)

\* the list pages over a few datasets and models
DatasetItems ==
    {[dataset_id |-> <<"a">>, config_name |-> <<"c">>, revision |-> <<"r">>],
     [dataset_id |-> <<"a">>, config_name |-> <<"b", "_", "c">>, revision |-> <<"r">>],
     [dataset_id |-> <<"a", "_", "b">>, config_name |-> <<"c">>, revision |-> <<"r">>]}

ModelItems ==
    {[model_id |-> <<"m">>, revision |-> <<"r">>],
     [model_id |-> <<"n">>, revision |-> <<"r">>]}

Requests ==
    {Request(page, item, alive) :
        page \in {"datasets", "models"}, item \in DatasetItems \cup ModelItems,
        alive \in BOOLEAN}

NextListPages ==
    \/ \E dataset \in DatasetItems : DatasetsPage_handleCache(dataset)
    \/ \E request \in Requests, ok \in BOOLEAN :
          DatasetsPage_cacheSettled(request, ok)
    \/ DatasetsPage_remount
    \/ \E model \in ModelItems : ModelsPage_handleCache(model)
    \/ \E request \in Requests, ok \in BOOLEAN :
          ModelsPage_cacheSettled(request, ok)
    \/ ModelsPage_remount
    \/ \E root \in {"datasets", "models"} : FetchQuery(root)

SpecListPages == Init /\ [][NextListPages]_vars

\* the responses the backend gives, and no response at all
Statuses == {NoResponse, 200, 204, 401, 403, 404, 500}

NextInterceptor ==
    \/ \E component \in StatusHooks : HookMount(component)
    \/ \E component \in StatusHooks : HookUnmount(component)
    \/ \E status \in Statuses : ApiResponse(status)
    \/ StatusInvalidatedRefetch

SpecInterceptor == Init /\ [][NextInterceptor]_vars

\* a WebSocketClient, its sockets and its timers
NextWebSocket ==
    \/ WsConnect
    \/ WsDisconnect
    \/ \E i \in 1..MaxSockets : WsOpen(i)
    \/ \E i \in 1..MaxSockets : WsClose(i)
    \/ WsTimer

SpecWebSocket == Init /\ [][NextWebSocket]_vars

\* calls of the resolver and of the pages that turn ids into names and back
ResolverIds ==
    {IdUD, IdG, <<"u", "_", "d">>, <<"u", "/", "d", "/", "1">>}

ResolverIdentities ==
    {Identity(id, config, DefaultRevision) :
        id \in ResolverIds, config \in {DefaultConfig, <<"p">>}}

Resolve(X, ctx, is_public) ==
    /\ result' = Result(IF is_public THEN "resolve_public" ELSE "resolve", X, ctx,
                        TRUE, "", <<LocalPath(X, ctx, is_public)>>, NoReport)
    /\ UNCHANGED <<local, objects, index, manifest, archives, clock, procs,
                   cached, uploaded, nUploads>>
    /\ UNCHANGED ui

\* useDownloadDatasetZip: the name of the file the browser saves
DownloadZipName(X) ==
    /\ result' = Result("zip_name", X, NoContext, TRUE, "",
                        <<[Path("download", FALSE, NoSegment, X)
                              EXCEPT !.id = SafeDatasetId(X.id)]>>, NoReport)
    /\ UNCHANGED <<local, objects, index, manifest, archives, clock, procs,
                   cached, uploaded, nUploads>>
    /\ UNCHANGED ui

NextResolver ==
    \/ \E X \in ResolverIdentities, ctx \in Contexts \cup {NoContext},
          is_public \in BOOLEAN : Resolve(X, ctx, is_public)
    \/ \E X \in ResolverIdentities : DownloadZipName(X)

SpecResolver == Init /\ [][NextResolver]_vars

\* damage done to stored documents from outside the engine
CorruptIndex(r) ==
    /\ index[r].exists
    /\ ~index[r].corrupt
    /\ index' = [index EXCEPT ![r] = CorruptDocument]
    /\ UNCHANGED <<local, objects, manifest, archives, clock, procs, cached,
                   uploaded, nUploads, result>>
    /\ UNCHANGED ui

CorruptManifest(r) ==
    /\ manifest[r].exists
    /\ ~manifest[r].corrupt
    /\ manifest' = [manifest EXCEPT ![r] = CorruptDocument]
    /\ UNCHANGED <<local, objects, index, archives, clock, procs, cached,
                   uploaded, nUploads, result>>
    /\ UNCHANGED ui

CorruptSidecar(p) ==
    /\ HasSidecar(local, p)
    /\ local' = [local EXCEPT ![p].sidecar = CorruptSidecarFile]
    /\ UNCHANGED <<objects, index, manifest, archives, clock, procs, cached,
                   uploaded, nUploads, result>>
    /\ UNCHANGED ui

CorruptUploadCalls == {<<XUD, 1, CtxA, TRUE>>, <<XG, 1, CtxA, FALSE>>}

CorruptDownloadCalls == {<<XUD, CtxA, FALSE>>, <<XUD, CtxAnon, TRUE>>}

\* the command-line process over a store whose documents get damaged
NextCorrupt ==
    \/ \E u \in CorruptUploadCalls : UploadBegin(1, u[1], u[2], u[3], u[4])
    \/ IndexRead(1)
    \/ IndexWrite(1)
    \/ ManifestRead(1)
    \/ ManifestWrite(1)
    \/ \E d \in CorruptDownloadCalls : Quiet /\ Download(d[1], d[2], d[3])
    \/ \E f \in BOOLEAN : Quiet /\ MigrateOne(XUD, CtxA, f)
    \/ CorruptIndex(Root(CtxA))
    \/ CorruptManifest(Root(CtxA))
    \/ \E p \in {ScopedPath(XUD, CtxA), PublicPath(XUD)} : CorruptSidecar(p)

SpecCorrupt == Init /\ [][NextCorrupt]_vars

\* the remote listing, with an index fetch that succeeds or fails
ListingContexts == {CtxA, CtxAnon, CtxB}

\* what the GET of the index hands back: no document when the fetch fails
FetchIndex(idx, ctx, fetch_ok) ==
    IF fetch_ok THEN Parse(idx[Root(ctx)]) ELSE NoDocument

\* tier 3 as a listing: the assets the public manifest names
PublicListing(man, ctx) ==
    {AssetRecord(X.id, X.config, X.revision) :
        X \in {Y \in Identities : PublicFound(man, Y, ctx)}}

ListS3(ctx, fetch_ok) ==
    LET doc == FetchIndex(index, ctx, fetch_ok)
        listing == IF ~ctx.has_write_credentials THEN PublicListing(manifest, ctx)
                   ELSE IF fetch_ok THEN ListRemote(index, objects, ctx)
                   ELSE ScanListing(objects, ctx)
        tiers == IF ~ctx.has_write_credentials THEN <<"public">>
                 ELSE PrivateTiers(doc)
    IN /\ Configured(ctx)
       /\ result' = [Result("list_remote", XG, ctx, TRUE, "", <<>>, NoReport)
                        EXCEPT !.listing = listing, !.tiers = tiers]
       /\ UNCHANGED <<local, objects, index, manifest, archives, clock, procs,
                      cached, uploaded, nUploads>>
       /\ UNCHANGED ui

\* remove(key) of the index manager, between operations
IndexRemove(X, ctx) ==
    /\ ctx.has_write_credentials
    /\ Parse(index[Root(ctx)]).exists
    /\ index' = [index EXCEPT ![Root(ctx)] =
                    Remove(Parse(index[Root(ctx)]), CompositeKey(X))]
    /\ UNCHANGED <<local, objects, manifest, archives, clock, procs, cached,
                   uploaded, nUploads, result>>
    /\ UNCHANGED ui

ListingUploadCalls == {<<XUD, 1, CtxA, TRUE>>, <<XG, 1, CtxA, FALSE>>}

ListingDownloadCalls ==
    {<<XUD, CtxA, TRUE>>, <<XUD, CtxAnon, TRUE>>, <<XG, CtxA, TRUE>>,
     <<XG, CtxAnon, FALSE>>}

NextListing ==
    \/ \E u \in ListingUploadCalls : Quiet /\ UploadBegin(1, u[1], u[2], u[3], u[4])
    \/ \E p \in Procs : IndexRead(p) \/ IndexWrite(p)
    \/ \E p \in Procs : ManifestRead(p) \/ ManifestWrite(p)
    \/ \E p \in Procs : UploadAbort(p)
    \/ \E X \in Identities : Quiet /\ IndexRemove(X, CtxA)
    \/ Quiet /\ CorruptIndex(Root(CtxA))
    \/ \E ctx \in ListingContexts, fetch_ok \in BOOLEAN : Quiet /\ ListS3(ctx, fetch_ok)
    \/ \E d \in ListingDownloadCalls : Quiet /\ Download(d[1], d[2], d[3])

SpecListing == Init /\ [][NextListing]_vars

\* publication and anonymous download
PublicUploadCalls ==
    {<<XG, c, CtxA, TRUE>> : c \in Contents}
        \cup {<<XG, 1, CtxPlain, TRUE>>, <<XG, 1, CtxA, FALSE>>}

PublicDownloadCalls ==
    {<<XG, CtxBucketOnly, TRUE>>, <<XG, CtxAnon, TRUE>>, <<XG, CtxAnon, FALSE>>,
     <<XG, CtxA, TRUE>>}

NextPublic ==
    \/ \E u \in PublicUploadCalls : UploadBegin(1, u[1], u[2], u[3], u[4])
    \/ IndexRead(1)
    \/ IndexWrite(1)
    \/ ManifestRead(1)
    \/ ManifestWrite(1)
    \/ \E d \in PublicDownloadCalls : Quiet /\ Download(d[1], d[2], d[3])
    \/ Quiet /\ Tick

SpecPublic == Init /\ [][NextPublic]_vars

\* uploaders of other processes keep rewriting the shared documents: each
\* foreign write puts in or takes out the entry of an asset of theirs
ForeignUpdate(doc, entry) ==
    IF \E e \in Parse(doc).entries : e.key = entry.key
    THEN Remove(Parse(doc), entry.key)
    ELSE Upsert(Parse(doc), entry)

ForeignIndexWrite(X, ctx) ==
    /\ index' = [index EXCEPT ![Root(ctx)] =
                    ForeignUpdate(index[Root(ctx)], IndexEntry(X, ctx, clock))]
    /\ UNCHANGED <<local, objects, manifest, archives, clock, procs, cached,
                   uploaded, nUploads, result>>
    /\ UNCHANGED ui

ForeignManifestWrite(X, ctx) ==
    /\ manifest' = [manifest EXCEPT ![Root(ctx)] =
                       ForeignUpdate(manifest[Root(ctx)], ManifestEntry(X, ctx))]
    /\ UNCHANGED <<local, objects, index, archives, clock, procs, cached,
                   uploaded, nUploads, result>>
    /\ UNCHANGED ui

ConflictUploadCalls == {<<XUD, 1, CtxA, TRUE>>, <<XUD, 1, CtxA, FALSE>>}

\* the steps of the update loop of one upload
UploadStep(p) ==
    IndexRead(p) \/ IndexWrite(p) \/ ManifestRead(p) \/ ManifestWrite(p)

NextConflict ==
    \/ \E u \in ConflictUploadCalls : UploadBegin(1, u[1], u[2], u[3], u[4])
    \/ \E p \in Procs : UploadStep(p)
    \/ ForeignIndexWrite(XG, CtxA)
    \/ ForeignManifestWrite(XG, CtxA)

\* an upload that has begun runs its loop to the end
SpecConflict ==
    /\ Init
    /\ [][NextConflict]_vars
    /\ \A p \in Procs : WF_vars(UploadStep(p))

\* the server process: uploads of the worker pool overlap
ServerUploadCalls ==
    {<<XUD, 1, CtxA, FALSE>>, <<XG, 1, CtxA, FALSE>>, <<XG, 1, CtxA, TRUE>>}

NextServer ==
    \/ \E p \in Procs, u \in ServerUploadCalls :
          UploadBegin(p, u[1], u[2], u[3], u[4])
    \/ \E p \in Procs : IndexRead(p)
    \/ \E p \in Procs : IndexWrite(p)
    \/ \E p \in Procs : ManifestRead(p)
    \/ \E p \in Procs : ManifestWrite(p)
    \/ Tick

SpecServer == Init /\ [][NextServer]_vars

(***************************************************************************)
(* Bucket isolation.                                                       *)
(***************************************************************************)
\* the contexts an asset has been materialized under
CachedUnder(X, ctx) == <<X, CtxKey(ctx)>> \in cached

\* the copies of X a bucket-filtered listing under ctx shows
Listed(X, ctx) ==
    {p \in ScanLocal(local, ctx, TRUE) : Token(p) = Token(LegacyPath(X))}

\* C1: an asset cached under two contexts that are not equal never has the
\* two copies resolve to one local directory.
C1_DistinctDirectories ==
    \A X \in Identities, A \in Contexts, B \in Contexts :
        (~CtxEqual(A, B) /\ CachedUnder(X, A) /\ CachedUnder(X, B))
            => LocalPath(X, A, FALSE) # LocalPath(X, B, FALSE)

\* C2: for an asset cached under A and under a different B, the listing
\* filtered by A shows A's copy and not B's copy (and so for B).
C2_ListingIsolation ==
    Quiet =>
        \A X \in Identities, A \in Contexts, B \in Contexts :
            (~CtxEqual(A, B) /\ CachedUnder(X, A) /\ CachedUnder(X, B))
                => /\ \E p \in Listed(X, A) : DirMatches(local, p, A)
                   /\ \A p \in Listed(X, A) : ~DirMatches(local, p, B)

\* the assets an upload has put under a context
UploadedUnder(X, ctx) ==
    \E u \in uploaded : u.X = X /\ u.ctx = CtxKey(ctx)

\* C3: a download under a context the asset was never uploaded to, cached or
\* migrated under fails with NotFound, returns no path and leaves the cache
\* as it is, whatever copies other contexts have left behind.
C3_NoStaleRead ==
    [][\A d \in DownloadCalls :
          (/\ Download(d[1], d[2], d[3])
           /\ Configured(d[2])
           /\ ~CachedUnder(d[1], d[2])
           /\ ~UploadedUnder(d[1], d[2]))
              => /\ ~result'.ok
                 /\ result'.error = "NotFound"
                 /\ result'.path = <<>>
                 /\ local' = local]_vars

\* a download came back NotFound although another context's copy lies in the
\* very directory the asset resolves to
C3_Witness ==
    /\ result.op = "download"
    /\ result.error = "NotFound"
    /\ Configured(result.ctx)
    /\ HasSidecar(local, ScopedPath(result.X, result.ctx))
    /\ ~DirMatches(local, ScopedPath(result.X, result.ctx), result.ctx)
    /\ \E A \in Contexts : ~CtxEqual(A, result.ctx) /\ CachedUnder(result.X, A)

(***************************************************************************)
(* Index maintenance under concurrent uploads.                             *)
(***************************************************************************)
HasIndexEntry(u) ==
    \E e \in index[Root(u.ctx)].entries : e.key = CompositeKey(u.X)

\* C4: every upload that reported success has its entry in the private index
\* of its bucket, however the read-modify-write sequences of concurrent
\* uploads interleaved.
C4_NoLostIndexEntry == \A u \in uploaded : HasIndexEntry(u)

\* two different datasets uploaded to one bucket, both reported and indexed
C4_Witness ==
    \E u \in uploaded, v \in uploaded :
        /\ u.X # v.X
        /\ u.ctx = v.ctx
        /\ HasIndexEntry(u)
        /\ HasIndexEntry(v)

(***************************************************************************)
(* Migration.                                                              *)
(***************************************************************************)
\* the bucket-scoped copies of X whose sidecar names ctx
ScopedCopies(loc, X, ctx) ==
    {p \in AllPaths :
        p.by_bucket /\ Token(p) = Token(LegacyPath(X)) /\ DirMatches(loc, p, ctx)}

\* migrate_one on an asset already migrated to the same context is a no-op
RemigrationIsNoOp ==
    \A X \in Identities, ctx \in MigrateContexts, f \in BOOLEAN :
        (MigrateOne(X, ctx, f) /\ ScopedCopies(local, X, ctx) # {})
            => /\ local' = local
               /\ Cardinality(ScopedCopies(local', X, ctx)) = 1

\* the step is a migrate_all that directly follows a migrate_all of the same
\* context
SecondRun(ctx, faults) ==
    /\ MigrateAll(ctx, faults)
    /\ result.op = "migrate_all"
    /\ CtxEqual(result.ctx, ctx)

C6_LegacyUntouched ==
    [][\A X \in Identities : local'[LegacyPath(X)] = local[LegacyPath(X)]]_vars

\* an asset was migrated and its legacy directory is still there, untagged
C6_Witness ==
    /\ result.op \in {"migrate_one", "migrate_all"}
    /\ result.report.migrated # {}
    /\ \A X \in result.report.migrated :
          /\ HasDir(local, LegacyPath(X))
          /\ ~HasSidecar(local, LegacyPath(X))
          /\ local[ScopedPath(X, result.ctx)].content = local[LegacyPath(X)].content

\* C7: migrate_all accounts for every legacy asset of the scan in its report
\* and, whatever failed, every other asset ends up with a tagged copy at its
\* target.
C7_BatchContinues ==
    result.op = "migrate_all" =>
        /\ result.report.migrated \cup result.report.skipped
              \cup result.report.failed = LegacyOnly(local)
        /\ \A X \in LegacyOnly(local) \ result.report.failed :
              HasSidecar(local, ScopedPath(X, result.ctx))

\* the first asset of the scan failed and the one after it was migrated
C7_Witness ==
    /\ result.op = "migrate_all"
    /\ Cardinality(LegacyOnly(local)) = 2
    /\ result.report.failed = {ScanOrder(LegacyOnly(local))[1]}
    /\ result.report.migrated = {ScanOrder(LegacyOnly(local))[2]}

(***************************************************************************)
(* Remote listing, upload idempotence and the round trip.                  *)
(***************************************************************************)
\* C8: with no upload in flight, the listing enumerated from the bucket's
\* private prefix is set-equal to the listing read from the private index,
\* for every context whose index document exists.
C8_ScanEqualsIndex ==
    Quiet =>
        \A ctx \in Contexts :
            index[Root(ctx)].exists
                => ScanListing(objects, ctx) = IndexListing(index, ctx)

\* the upload in flight in p repeats one that already reported success
RepeatedUpload(p) ==
    procs[p].pc # "idle" /\ UploadInputs(procs[p]) \in uploaded

\* C9: an upload whose inputs equal those of an upload that already reported
\* success changes no remote object, no index document, no manifest and no
\* archive, at its start and at every later step.
C9_RepeatedUploadChangesNothing ==
    [][/\ \A u \in UploadCalls :
             (/\ UploadBegin(1, u[1], u[2], u[3], u[4])
              /\ [X |-> u[1], content |-> u[2], ctx |-> CtxKey(u[3]),
                  make_public |-> u[4]] \in uploaded)
                 => remote' = remote
       /\ \A p \in Procs : RepeatedUpload(p) => remote' = remote]_vars

\* the successful uploads of X under the context of a download call
UploadsOf(X, ctx) == {u \in uploaded : u.X = X /\ u.ctx = CtxKey(ctx)}

\* the step is a download, with credentials, of an asset uploaded under the
\* same context
RoundTrip(d) ==
    /\ Download(d[1], d[2], d[3])
    /\ d[2].has_write_credentials
    /\ UploadsOf(d[1], d[2]) # {}

EveryCopyIs(X, ctx, c) ==
    /\ \A u \in UploadsOf(X, ctx) : u.content = c
    /\ HasDir(local, LegacyPath(X)) => local[LegacyPath(X)].content = c

Published == {u \in uploaded : u.make_public}

InManifest(u) == \E e \in manifest[Root(u.ctx)].entries : e.key = CompositeKey(u.X)

\* the download fetched and unpacked the public archive kept for ctx
ViaPublicTier(X, ctx) ==
    /\ result'.ok
    /\ result'.path = <<PublicPath(X)>>
    /\ archives[ArchiveKey(X, ctx)] # 0
    /\ local'[PublicPath(X)].content = archives[ArchiveKey(X, ctx)]
    /\ local'[PublicPath(X)].sidecar = Sidecar(ctx, TRUE)

DirsOf(loc, X, ctx) ==
    {p \in AllPaths : Token(p) = Token(LegacyPath(X)) /\ DirMatches(loc, p, ctx)}

\* C12: for each asset and context, at most one local directory holds the
\* files of that asset cached from that context.
C12_OneDirectoryPerPair ==
    \A X \in Identities, ctx \in Contexts : Cardinality(DirsOf(local, X, ctx)) <= 1

\* the path segment derived from the bucket fields a sidecar records
SegmentOf(record) ==
    [name |-> record.s3_bucket_name,
     hash |-> Hash8(StripSlash(record.s3_endpoint_url))]

\* C13: every sidecar stored under a bucket-scoped path segment records the
\* bucket name and the endpoint that segment is derived from.
C13_SidecarMatchesSegment ==
    \A p \in AllPaths :
        (p.by_bucket /\ HasSidecar(local, p))
            => p.segment = SegmentOf(local[p].sidecar[1])

\* a private download has just tagged a bucket-scoped directory while a
\* public-tier download of the same asset lies tagged in the public store
C13_Witness ==
    /\ result.op = "download"
    /\ result.ok
    /\ result.path = <<ScopedPath(result.X, result.ctx)>>
    /\ local[result.path[1]].sidecar = Sidecar(result.ctx, FALSE)
    /\ HasSidecar(local, PublicPath(result.X))
    /\ local[PublicPath(result.X)].sidecar[1].is_public

(***************************************************************************)
(* Corrupt documents.                                                      *)
(***************************************************************************)
\* the store with every unparsable document taken away
WithoutCorruptDocuments(docs) ==
    [r \in Roots |-> IF docs[r].corrupt THEN NoDocument ELSE docs[r]]

WithoutCorruptSidecars(loc) ==
    [p \in AllPaths |->
        IF loc[p].sidecar # <<>> /\ loc[p].sidecar[1].corrupt
        THEN [loc[p] EXCEPT !.sidecar = <<>>] ELSE loc[p]]

\* a result of the documented shape: a success flag with a path or a report,
\* or a failure with an error of the taxonomy
Structured(r) ==
    /\ r.op \in {"download", "upload", "migrate_one", "migrate_all"}
    /\ r.ok \in BOOLEAN
    /\ r.ok <=> r.error = ""
    /\ r.error \in {"", "NotFound", "MigrationFailed", "WriteConflict"}

\* whether download finds the asset when the corrupt documents are absent
FoundWithoutCorrupt(X, ctx, allow_public_fallback) ==
    \/ LocalHit(WithoutCorruptSidecars(local), X, ctx) # <<>>
    \/ /\ ctx.has_write_credentials
       /\ PrivateFound(WithoutCorruptDocuments(index), objects, X, ctx)
    \/ /\ PublicTierOpen(ctx, allow_public_fallback)
       /\ PublicFound(WithoutCorruptDocuments(manifest), X, ctx)

C15_PublicPathIgnoresContext ==
    result.op = "resolve_public" =>
        /\ ~result.path[1].by_bucket
        /\ result.path[1].segment = NoSegment
        /\ \A ctx \in Contexts \cup {NoContext} :
              LocalPath(result.X, ctx, TRUE) = result.path[1]

\* a public asset was resolved under a context whose private assets are
\* bucket-scoped
C15_Witness ==
    /\ result.op = "resolve_public"
    /\ Configured(result.ctx)
    /\ result.path = <<PublicPath(result.X)>>
    /\ LocalPath(result.X, result.ctx, FALSE).by_bucket
    /\ \E i \in 1..Len(result.X.id) : result.X.id[i] = "/"

\* C16: the id-to-component mapping is reversible: no other id maps to the
\* component that was produced, and the id recovered from the component by
\* the inverse replacement is the original id.
C16_IdMappingReversible ==
    result.op \in {"resolve", "resolve_public", "zip_name"} =>
        /\ \A Y \in ResolverIdentities :
              Y.id # result.X.id => SafeName(Y.id) # result.path[1].id
        /\ HubDatasetId(result.path[1].id) = result.X.id

\* C17: a configuration submitted in Public Access mode carries neither
\* aws_access_key_id nor aws_secret_access_key, whatever the form holds in
\* those fields; a submitted configuration carries a credential only when
\* Private Access was the mode selected at the time of the submit.
C17_NoCredentialsInPublicMode ==
    \A sent \in {ui.submitted[i] : i \in DOMAIN ui.submitted} :
        /\ ~sent.showCredentials =>
              /\ sent.aws_access_key_id = Undefined
              /\ sent.aws_secret_access_key = Undefined
        /\ (sent.aws_access_key_id # Undefined
              \/ sent.aws_secret_access_key # Undefined) => sent.showCredentials

\* a submit in Public Access mode while the form still held credential text
C17_Witness ==
    /\ ui.submitted # <<>>
    /\ ~ui.submitted[1].showCredentials
    /\ ui.submitted[1].typed

\* C18 as stated: the defaults effect writes a field only while the backend
\* holds no active configuration, and only a field that was empty.
C18_DefaultsOnlyWhileNothingActive ==
    \A w \in ui.written :
        /\ ~ui.backend.status.configured
        /\ w[2] = ""

\* C18: the defaults effect writes a field only while the page holds no
\* status that reports an active configuration (the status is unconfigured
\* or not loaded), and only a field that was empty; the value written is the
\* environment default of that field.
C18_DefaultsOnlyIntoEmptyFields ==
    \A w \in ui.written :
        /\ ConfiguredOf(ui.configStatus) # <<TRUE>>
        /\ w[2] = ""
        /\ ui.defaultConfig # <<>>
        /\ ui.formData[w[1]] = ui.defaultConfig[1][w[1]]

\* the defaults arrive after the user typed a bucket name: the endpoint
\* takes its default, the typed bucket name stays
C18_Witness ==
    /\ <<"s3_endpoint_url", "">> \in ui.written
    /\ ui.formData.s3_bucket_name = "t"
    /\ ui.defaultConfig # <<>>
    /\ ui.defaultConfig[1].s3_bucket_name = "d"

Consulted(tiers, t) == \E i \in DOMAIN tiers : tiers[i] = t

\* the assets an index document lists for a context, read off the document
EntriesFor(doc, ctx) ==
    {AssetRecord(e.dataset_id, e.config_name, e.revision) :
        e \in {d \in doc.entries : d.s3_bucket = ctx.bucket_name}}

PassesFilter(p, ctx) ==
    LET record == ReadSidecar(local[p].sidecar)
    IN \/ record = <<>> /\ ~Configured(ctx)
       \/ /\ record # <<>>
          /\ record[1].s3_bucket_name = ctx.bucket_name
          /\ StripSlash(record[1].s3_endpoint_url) = StripSlash(ctx.endpoint_url)
          /\ StripSlash(record[1].s3_data_prefix) = StripSlash(ctx.data_prefix)

\* C21: with filter_by_bucket=true the scan lists an asset if and only if
\* one of its directories in the walked trees has no sidecar while no
\* context is configured, or has a sidecar that matches the current context;
\* while a bucket is configured no asset is listed for a directory without
\* a sidecar.
C21_FilteredScan ==
    [][\A ctx \in MigrateContexts \cup {NoContext} :
          ListLocal(ctx, TRUE) =>
             /\ result'.listing =
                   {AssetRecord(p.id, p.config, p.revision) :
                       p \in {q \in Walked(ctx) :
                                local[q].content # 0 /\ PassesFilter(q, ctx)}}
             /\ Configured(ctx) =>
                   \A p \in ScanLocal(local, ctx, TRUE) :
                       local[p].sidecar # <<>>]_vars

\* a filtered listing under a configured bucket that shows the migrated copy
\* of one asset and leaves out another asset that has only a legacy copy
C21_Witness ==
    /\ result.op = "list_local"
    /\ result.tiers = <<"filtered">>
    /\ Configured(result.ctx)
    /\ result.listing # {}
    /\ \E X \in Identities :
          /\ local[LegacyPath(X)].content # 0
          /\ local[LegacyPath(X)].sidecar = <<>>
          /\ AssetRecord(LegacyPath(X).id, X.config, X.revision) \notin result.listing

(***************************************************************************)
(* Sidecars once written.                                                  *)
(***************************************************************************)
BucketFields(record) ==
    <<record.s3_bucket_name, record.s3_endpoint_url, record.s3_data_prefix>>

\* C22: once a sidecar is written for a directory, the bucket name, endpoint
\* and data prefix it records never change: no download, upload or migration
\* under another context writes over it.
C22_SidecarNeverRewritten ==
    [][\A p \in AllPaths :
          (local[p].sidecar # <<>> /\ ~local[p].sidecar[1].corrupt) =>
             /\ local'[p].sidecar # <<>>
             /\ BucketFields(local'[p].sidecar[1]) = BucketFields(local[p].sidecar[1])]_vars

(***************************************************************************)
(* Write conflicts.                                                        *)
(***************************************************************************)
Uploading(p) == procs[p].pc # "idle"

\* the upload of p returns in this step
Returns(p) == Uploading(p) /\ procs'[p].pc = "idle"

\* C23: an index or manifest update that keeps meeting write conflicts
\* re-reads and re-writes at most MaxAttempts times and then returns
\* WriteConflict; an upload that has begun always returns, it reports
\* WriteConflict only after its last allowed attempt met a conflict, and it
\* reports success only when its entries are in the documents.
C23_BoundedRetry ==
    /\ [](\A p \in Procs : procs[p].attempts < MaxAttempts)
    /\ [][\A p \in Procs :
             Returns(p) =>
                LET pr == procs[p]
                    r == Root(pr.ctx)
                IN /\ result'.ok =>
                         /\ \E e \in index'[r].entries : e.key = CompositeKey(pr.X)
                         /\ pr.make_public =>
                               \E e \in manifest'[r].entries :
                                   e.key = CompositeKey(pr.X)
                   /\ ~result'.ok =>
                         /\ result'.error = "WriteConflict"
                         /\ pr.attempts + 1 = MaxAttempts
                         /\ pr.pc = "idx_write" => ~CanPut(index[r], pr.seen)
                         /\ pr.pc = "man_write" => ~CanPut(manifest[r], pr.seen)
                         /\ index' = index /\ manifest' = manifest]_vars
    /\ \A p \in Procs : Uploading(p) ~> ~Uploading(p)

\* an upload gave up on the manifest after its last attempt met a conflict,
\* with its index entry written
C23_Witness ==
    /\ result.op = "upload"
    /\ result.error = "WriteConflict"
    /\ \E e \in index[Root(result.ctx)].entries : e.key = CompositeKey(result.X)
    /\ ~\E e \in manifest[Root(result.ctx)].entries : e.key = CompositeKey(result.X)

(***************************************************************************)
(* WebSocketClient.                                                        *)
(***************************************************************************)
\* C24: after disconnect() the client makes no new WebSocket and schedules
\* no reconnect until connect() is called again; the close event that
\* disconnect() causes starts no reconnect.
C24_NoReconnectAfterDisconnect ==
    [][(ui.socket.disconnected /\ ui'.socket.disconnected) =>
          /\ Made(ui'.socket) = Made(ui.socket)
          /\ ui'.socket.timers <= ui.socket.timers]_vars

\* C25: reconnectAttempts stays within 0..5, goes back to 0 only in a step
\* in which a socket opens, and while it is 5 no reconnect is scheduled.
C25_BoundedReconnects ==
    /\ [](ui.socket.reconnectAttempts \in 0..maxReconnectAttempts)
    /\ [][/\ ui'.socket.reconnectAttempts < ui.socket.reconnectAttempts =>
                /\ ui'.socket.reconnectAttempts = 0
                /\ \E i \in 1..MaxSockets :
                      /\ ui.socket.sockets[i] = "connecting"
                      /\ ui'.socket.sockets[i] = "open"
          /\ ui.socket.reconnectAttempts = maxReconnectAttempts =>
                ui'.socket.timers <= ui.socket.timers
          /\ ui'.socket.timers > ui.socket.timers =>
                /\ ui'.socket.timers = ui.socket.timers + 1
                /\ ui'.socket.reconnectAttempts = ui.socket.reconnectAttempts + 1]_vars

\* five attempts were made without an open, and the socket of the fifth has
\* closed too: nothing is scheduled any more
C25_Witness ==
    /\ ui.socket.reconnectAttempts = maxReconnectAttempts
    /\ ui.socket.timers = 0
    /\ \A i \in 1..MaxSockets : ui.socket.sockets[i] = "closed"

\* C26: a successful configuration change (set or clear) leaves the cached
\* config status equal to the new status of the backend and leaves no cached
\* dataset or model query that is served without being fetched again.
C26_ConfigChangeInvalidates ==
    [][(ui.mounted /\ (~ui'.mounted \/ ui'.backend.status # ui.backend.status))
          => /\ ui'.configStatus = <<ui'.backend.status>>
             /\ \A root \in QueryRoots : ui'.queries[root] # "fresh"]_vars

\* C27: once the status query has settled, the datasets list and detail
\* pages are rendered only while configStatus.configured is true; otherwise
\* /datasets and /datasets/:datasetId redirect to /config, / redirects to
\* /datasets if configured and to /config if not, and every other path but
\* /config redirects to /.
C27_Target(pathname, configured) ==
    CASE pathname = HomePath -> IF configured THEN DatasetsPath ELSE ConfigPath
      [] pathname \in {DatasetsPath, <<"datasets", "x">>} -> ConfigPath
      [] OTHER -> HomePath

C27_GuardedRoutes ==
    /\ [](~ui.isLoading.status =>
            LET configured == /\ ui.configStatus # <<>>
                              /\ ui.configStatus[1].configured
                element == AppContent(ui)
            IN /\ element.kind = "page" =>
                    /\ element.name \in {"DatasetsPage", "DatasetDetailPage"}
                          <=> /\ configured
                              /\ ui.location \in {DatasetsPath, <<"datasets", "x">>}
                    /\ element.name = "ConfigurationPage"
                          <=> ui.location = ConfigPath
               /\ element.kind = "navigate" =>
                    element.to = C27_Target(ui.location, configured))
    /\ [][\/ AppContent(ui).kind # "navigate"
          \/ /\ ui'.location = AppContent(ui).to
             /\ ui'.redirected = <<ui.location>>]_vars

C27_Witness ==
    /\ ui.redirected = <<<<"datasets", "x">>>>
    /\ ui.location = ConfigPath
    /\ ~ui.isLoading.status
    /\ ui.configStatus # <<>>
    /\ ~ui.configStatus[1].configured

\* C28: whenever the status query has settled and the Next.js HomePage
\* renders nothing, the page is eventually left for /datasets or /config,
\* also when the query settled with an error and no data.
C28_HomePageLeaves ==
    (ui.location = HomePath /\ HomePage(ui) = Page("null"))
        ~> ui.location \in {DatasetsPath, ConfigPath}

\* C29: on the list pages an item is shown as being cached exactly while a
\* cache request for that item is in flight; so the sets of shown keys are
\* empty whenever no request is in flight, and starting or settling the
\* request of one item changes the indicator of no other item.
C29_InFlight(page, item) ==
    \E request \in ui.pending : request.page = page /\ request.item = item

C29_IndicatorIffInFlight ==
    /\ \A dataset \in DatasetItems :
          getDatasetKey(dataset) \in ui.downloadingDatasets
              <=> C29_InFlight("datasets", dataset)
    /\ \A model \in ModelItems :
          getModelKey(model) \in ui.cachingModels
              <=> C29_InFlight("models", model)

\* C30: a response with status 401 or 403 dispatches one auth-error event,
\* which invalidates the cached config status if a useConfigStatus hook is
\* mounted, and its error is rejected to the caller; a response with any
\* other status dispatches no event and leaves the status query as it is.
C30_AuthErrorEvent ==
    [][ui'.responses # ui.responses =>
          LET handled == ui'.lastResponse[1]
              auth == handled.status \in {401, 403}
          IN /\ handled.dispatched = IF auth THEN 1 ELSE 0
             /\ auth => /\ handled.outcome = "rejected"
                        /\ handled.value = handled.status
                        /\ ui.listeners # {} => ui'.statusInvalidated
             /\ ~auth => ui'.statusInvalidated = ui.statusInvalidated]_vars

C30_Witness ==
    /\ ui.lastResponse # <<>>
    /\ ui.lastResponse[1].status = 401
    /\ ui.lastResponse[1].outcome = "rejected"
    /\ ui.listeners = {"Layout", "DatasetsPage"}
    /\ ui.statusInvalidated

====
